---- MODULE Spec2Model ----
(***************************************************************************)
(* Model of the knowledge-graph pipeline of cl-project: the entity         *)
(* normalizer, the relation extractor, the RDF graph builder and the       *)
(* natural-language query layer.                                           *)
(*                                                                         *)
(* Python strings are modelled as sequences of one-character strings, so   *)
(* that lower(), strip(), split(), substring tests and the regular         *)
(* expression substitutions are computed character by character.           *)
(***************************************************************************)
EXTENDS Integers, Sequences, FiniteSets, TLC

VARIABLES
    \* ---- RelationExtractor ----
    rel_stats,        \* self.stats of the RelationExtractor
    chunks_entities,  \* argument of extract_relations_from_chunks (dict, in order)
    max_chunks,       \* argument of extract_relations_from_chunks (0 = None)
    rel_pc,           \* position of extract_relations_from_chunks
    rel_i,            \* loop index i over chunk_ids (1-based)
    all_relations,    \* local all_relations of extract_relations_from_chunks
    rel_log,          \* history: one record per call of extract_relations_from_chunk
    call_in,          \* a direct call of extract_relations_from_chunk: its arguments
    call_out,         \* ... and what it returned
    \* ---- EntityNormalizer ----
    norm_entities,    \* argument `entities` of normalize_entities (EntityCandidate list)
    hash_seed,        \* the process's hash order, which decides list(set(...))
    norm_pc,          \* position of normalize_entities
    entity_batches,   \* local entity_batches of normalize_entities
    norm_i,           \* index of the batch the loop is at (1-based)
    all_normalized,   \* local all_normalized (dict, in insertion order)
    norm_stats,       \* self.stats of the EntityNormalizer
    norm_log,         \* history: one record per batch the loop has handled
    \* ---- KnowledgeGraphBuilder and the query over its graph ----
    graph,            \* self.graph: the set of triples
    kg_stats,         \* self.stats of the KnowledgeGraphBuilder
    kg_pc,            \* how far the build has come: "new", "entities", "relations"
    kg_entities,      \* argument normalized_entities of add_entities (dict, in order)
    kg_relations,     \* argument relations of add_relations
    query,            \* the last WHAT_IS_TYPE_OF query: token, rows, formatted parents
    schema_calls,     \* calls of add_ontology_schema on this builder: 0, 1, 2 (two or more)
    build,            \* main of build_knowledge_graph.py: the files written, the next
                      \* format, the last reading of the clock
    \* ---- QueryProcessor ----
    tok_name,         \* an entity name given to both token derivations
    tok_builder,      \* local name of _create_entity_uri(tok_name), once computed
    tok_query,        \* _normalize_entity_name(tok_name), once computed
    tok_done,         \* which of the two have been computed
    question,         \* argument of process_question
    intent,           \* what process_question did with it, or a QueryIntent given
    sparql,           \* what generate_sparql_query did with the intent
    results,          \* what execute_sparql returned for the query
    answer,           \* what InteractiveDemo.process_question returned
    demo_call         \* its argument use_natural_language, and how its collaborators behave

relVars == <<rel_stats, chunks_entities, max_chunks, rel_pc, rel_i,
             all_relations, rel_log, call_in, call_out>>

normVars == <<norm_entities, hash_seed, norm_pc, entity_batches, norm_i, all_normalized,
              norm_stats, norm_log>>

kgVars == <<graph, kg_stats, kg_pc, kg_entities, kg_relations, query, schema_calls,
            build>>

qpVars == <<tok_name, tok_builder, tok_query, tok_done, question, intent,
            sparql, results, answer, demo_call>>

vars == <<relVars, normVars, kgVars, qpVars>>

-----------------------------------------------------------------------------
(* Bounds of the model *)

MaxRels == 1        \* candidate relations in one LLM response
MaxChunks == 2      \* entries of chunks_entities
MaxCands == 24      \* EntityCandidates given to normalize_entities
MaxEmit == 2        \* entities in one LLM normalization response
MaxNameLen == 3     \* characters of a generated entity name
MaxEntities == 2    \* items of the mapping given to add_entities
MaxKGRels == 1      \* relations given to add_relations
MaxWords == 3       \* pieces of a generated question

-----------------------------------------------------------------------------
(* Python string primitives *)

UpperChars == <<"A","B","C","D","E","F","G","H","I","J","K","L","M",
                "N","O","P","Q","R","S","T","U","V","W","X","Y","Z">>
LowerChars == <<"a","b","c","d","e","f","g","h","i","j","k","l","m",
                "n","o","p","q","r","s","t","u","v","w","x","y","z">>
DigitChars == {"0","1","2","3","4","5","6","7","8","9"}
\* the accented lower-case letters of the question patterns, each one
\* character, written as the letter followed by its accent
AccentedChars == {"e'", "a'", "a~", "c,"}
Whitespace == {" ", "\t", "\n"}

IsUpper(c) == \E i \in 1..26 : UpperChars[i] = c
IsLowerChar(c) == \E i \in 1..26 : LowerChars[i] = c

\* str.lower() on the upper-case letters
LowerTable ==
    [c \in {UpperChars[i] : i \in 1..26} |->
        LowerChars[CHOOSE i \in 1..26 : UpperChars[i] = c]]

\* str.lower(), one character
LowerChar(c) == IF c \in DOMAIN LowerTable THEN LowerTable[c] ELSE c

\* str.lower()
Lower(s) == [i \in 1..Len(s) |-> LowerChar(s[i])]

RECURSIVE LStrip(_)
LStrip(s) == IF s # <<>> /\ Head(s) \in Whitespace THEN LStrip(Tail(s)) ELSE s

RECURSIVE RStrip(_)
RStrip(s) == IF s # <<>> /\ s[Len(s)] \in Whitespace
             THEN RStrip(SubSeq(s, 1, Len(s) - 1)) ELSE s

\* str.strip()
Strip(s) == RStrip(LStrip(s))

\* a in b
IsSubstring(a, b) ==
    \E i \in 0..(Len(b) - Len(a)) : SubSeq(b, i + 1, i + Len(a)) = a

SeqsUpTo(S, n) == UNION {[1..k -> S] : k \in 0..n}

RECURSIVE Concat(_)
Concat(ss) == IF ss = <<>> THEN <<>> ELSE Head(ss) \o Concat(Tail(ss))

\* entity names the inputs are built from
Names ==
    [NN |-> <<"N","N">>, DBN |-> <<"D","B","N">>, SVM |-> <<"S","V","M">>,
     Svm |-> <<"S","v","m">>,
     SupportVectorMachine |->
        <<"S","u","p","p","o","r","t"," ","V","e","c","t","o","r"," ","M","a","c","h","i","n","e">>,
     Algorithm |-> <<"A","l","g","o","r","i","t","h","m">>,
     BagOfWords |-> <<"B","a","g"," ","o","f"," ","W","o","r","d","s">>]

-----------------------------------------------------------------------------
(* RelationExtractor *)

relation_schema ==
   << <<"i","s","_","a">>,
      <<"p","a","r","t","_","o","f">>,
      <<"s","u","b","c","l","a","s","s","_","o","f">>,
      <<"u","s","e","s">>,
      <<"i","m","p","l","e","m","e","n","t","s">>,
      <<"o","p","t","i","m","i","z","e","s">>,
      <<"a","p","p","l","i","e","s","_","t","o">>,
      <<"s","o","l","v","e","s">>,
      <<"r","e","q","u","i","r","e","s">>,
      <<"d","e","p","e","n","d","s","_","o","n">>,
      <<"b","a","s","e","d","_","o","n">>,
      <<"e","x","t","e","n","d","s">>,
      <<"o","u","t","p","e","r","f","o","r","m","s">>,
      <<"c","o","m","p","a","r","e","d","_","t","o">>,
      <<"e","q","u","i","v","a","l","e","n","t","_","t","o">>,
      <<"p","r","e","c","e","d","e","s">>,
      <<"e","v","o","l","v","e","d","_","f","r","o","m">>,
      <<"t","r","a","i","n","e","d","_","o","n">>,
      <<"e","v","a","l","u","a","t","e","d","_","o","n">>,
      <<"m","e","a","s","u","r","e","s">>,
      <<"p","r","e","d","i","c","t","s">>,
      <<"c","r","e","a","t","e","d","_","b","y">>,
      <<"p","r","o","p","o","s","e","d","_","b","y">>,
      <<"d","e","v","e","l","o","p","e","d","_","b","y">> >>

SchemaNames == {relation_schema[i] : i \in 1..Len(relation_schema)}

ExtractedFromText ==
    <<"E","x","t","r","a","c","t","e","d"," ","f","r","o","m"," ","t","e","x","t">>

RelStatsInit == [chunks_processed |-> 0, relations_extracted |-> 0,
                 llm_calls |-> 0, failed_extractions |-> 0]

\* subject.lower() in entity.lower() or entity.lower() in subject.lower()
Matches(s, e) ==
    IsSubstring(Lower(s), Lower(e)) \/ IsSubstring(Lower(e), Lower(s))

\* any(... for entity in entities)
AlwaysValid(s, entities) == TRUE
EntityValid(s, entities) == \E i \in 1..Len(entities) : Matches(s, entities[i])

\* the element equal to s, case aside, when there is one, else the first match
ClosestEntity(s, entities) ==
    IF \E i \in 1..Len(entities) : Lower(entities[i]) = Lower(s)
    THEN entities[CHOOSE i \in 1..Len(entities) : Lower(entities[i]) = Lower(s)]
    ELSE IF \E i \in 1..Len(entities) : Matches(s, entities[i])
    THEN entities[CHOOSE i \in 1..Len(entities) :
                    /\ Matches(s, entities[i])
                    /\ \A j \in 1..(i-1) : ~Matches(s, entities[j])]
    ELSE s

\* next((e for e in entities if ...), s)
EntityExact(s, entities) ==
    IF \E i \in 1..Len(entities) : Matches(s, entities[i])
    THEN entities[CHOOSE i \in 1..Len(entities) :
                    /\ Matches(s, entities[i])
                    /\ \A j \in 1..(i-1) : ~Matches(s, entities[j])]
    ELSE s

\* predicate.lower() in [p.lower() for p in self.relation_schema.keys()]
PredicateValid(p) ==
    \E i \in 1..Len(relation_schema) : Lower(relation_schema[i]) = Lower(p)

\* next((p for p in self.relation_schema.keys() if p.lower() == predicate.lower()), predicate)
PredicateExact(p) ==
    IF \E i \in 1..Len(relation_schema) : Lower(relation_schema[i]) = Lower(p)
    THEN relation_schema[CHOOSE i \in 1..Len(relation_schema) :
            /\ Lower(relation_schema[i]) = Lower(p)
            /\ \A j \in 1..(i-1) : Lower(relation_schema[j]) # Lower(p)]
    ELSE p

\* One iteration of the loop of _filter_valid_relations: <<>> when the
\* candidate is skipped, <<rewritten candidate>> when it is accepted.
\* A candidate that is not a dict of strings raises inside the try and is
\* skipped by the except.
FilterOne(relation, entities) ==
    IF ~relation.dict THEN <<>>
    ELSE LET subject   == Strip(relation.subject)
             predicate == Strip(relation.predicate)
             obj       == Strip(relation.object)
             context   == Strip(relation.context)
         IN IF subject = <<>> \/ predicate = <<>> \/ obj = <<>> THEN <<>>
            ELSE IF /\ EntityValid(subject, entities)
                    /\ EntityValid(obj, entities)
                    /\ PredicateValid(predicate)
                 THEN << [subject   |-> EntityExact(subject, entities),
                          predicate |-> PredicateExact(predicate),
                          object    |-> EntityExact(obj, entities),
                          context   |-> IF context # <<>> THEN context
                                        ELSE ExtractedFromText] >>
                 ELSE <<>>

RECURSIVE _filter_valid_relations(_, _)
_filter_valid_relations(relations, entities) ==
    IF relations = <<>> THEN <<>>
    ELSE FilterOne(Head(relations), entities)
            \o _filter_valid_relations(Tail(relations), entities)

\* Relation(subject=..., predicate=..., object=..., chunk_id=..., confidence=1.0, context=...)
ToRelation(rel_data, chunk_id) ==
    [subject |-> rel_data.subject, predicate |-> rel_data.predicate,
     object |-> rel_data.object, chunk_id |-> chunk_id,
     confidence |-> 1, context |-> rel_data.context]

\* The except branch of extract_relations_from_chunk.
\* if len(entities_in_chunk) < 2: return []
NeverTooFew(entities_in_chunk) == FALSE
TooFewEntities(entities_in_chunk) ==
    Len(entities_in_chunk) < 2

FailureNotCounted(stats) == stats
CountFailure(stats) ==
    [stats EXCEPT !.failed_extractions = @ + 1]

\* extract_relations_from_chunk(chunk, entities_in_chunk) with the LLM
\* behaving as `outcome`:
\*   chat_raises     ollama.chat raises
\*   bad_envelope    the reply has no ['message']['content']
\*   not_iterable    the JSON's "relations" value cannot be iterated (null, a number)
\*   parsed          _parse_relations_response returns outcome.relations
\*   malformed       the text holds no JSON, or JSON that neither json.loads
\*                   nor the line parser accepts: _parse_relations_response
\*                   logs a warning and returns []
\* The result is the new stats and the returned list.
extract_relations_from_chunk(stats, chunk_id, entities_in_chunk, outcome) ==
    IF TooFewEntities(entities_in_chunk)
    THEN [stats |-> stats, relations |-> <<>>, llm |-> FALSE]
    ELSE LET afterCall == [stats EXCEPT !.llm_calls = @ + 1]
             done(st) == [st EXCEPT !.chunks_processed = @ + 1]
         IN CASE outcome.kind = "chat_raises" ->
                   [stats |-> done(CountFailure(stats)), relations |-> <<>>, llm |-> TRUE]
              [] outcome.kind \in {"bad_envelope", "not_iterable"} ->
                   [stats |-> done(CountFailure(afterCall)), relations |-> <<>>, llm |-> TRUE]
              [] OTHER ->
                   LET valid == _filter_valid_relations(outcome.relations, entities_in_chunk)
                       relations == [k \in 1..Len(valid) |-> ToRelation(valid[k], chunk_id)]
                   IN [stats |-> done([afterCall EXCEPT
                                          !.relations_extracted = @ + Len(relations)]),
                       relations |-> relations, llm |-> TRUE]

-----------------------------------------------------------------------------
(* Inputs of the relation extractor *)


\* entities_in_chunk of a direct call
EntityLists ==
    { <<>>, <<Names.NN>>, <<Names.NN, Names.DBN>>, << <<"N">>, Names.NN >>, <<Names.SVM, Names.NN, Names.DBN>> }

\* what the LLM may write as a subject or an object
LLMNames ==
    { <<"n","n">>, <<" ","B","N"," ">>, <<"D","B","N","s">>, <<"X">>, <<>> }

\* what the LLM may write as a predicate
LLMPredicates ==
    { <<"u","s","e","s">>, <<"I","s","_","A">>, <<"l","i","k","e","s">> }

NotADict == [dict |-> FALSE, subject |-> <<>>, predicate |-> <<>>,
             object |-> <<>>, context |-> <<>>]

Candidates ==
    { [dict |-> TRUE, subject |-> s, predicate |-> p, object |-> o, context |-> c] :
        s \in LLMNames, p \in LLMPredicates, o \in LLMNames, c \in {<<>>} }
    \cup { [dict |-> TRUE, subject |-> Names.NN, predicate |-> p, object |-> Names.DBN,
             context |-> <<" ","c","x">>] : p \in { <<>>, <<"U","S","E","S">> } }
    \cup {NotADict}

\* a short pool for the multi-chunk loop
LoopCandidates ==
    { [dict |-> TRUE, subject |-> Names.NN, predicate |-> <<"u","s","e","s">>,
       object |-> <<"d","b","n">>, context |-> <<>>],
      [dict |-> TRUE, subject |-> <<"X">>, predicate |-> <<"u","s","e","s">>,
       object |-> Names.NN, context |-> <<>>] }

Responses(pool) ==
    { [kind |-> k, relations |-> <<>>] : k \in {"chat_raises", "bad_envelope", "not_iterable"} }
    \cup { [kind |-> "parsed", relations |-> rs] : rs \in SeqsUpTo(pool, MaxRels) }

ChunkEntries ==
    { [entities |-> el, present |-> b] : el \in {<<>>, <<Names.NN>>, <<Names.NN, Names.DBN>>}, b \in BOOLEAN }

NoCall == [chunk_id |-> 0, entities |-> <<>>, outcome |-> [kind |-> "none", relations |-> <<>>]]
NoResult == [returned |-> FALSE, relations |-> <<>>, llm |-> FALSE, before |-> RelStatsInit]

-----------------------------------------------------------------------------
(* EntityNormalizer *)

batch_size == 20

DigitSeq == <<"0","1","2","3","4","5","6","7","8","9">>

\* entity types the normalization prompt offers, and the default 'OTHER'
EntityTypes ==
    [Algorithm |-> <<"A","L","G","O","R","I","T","H","M">>, Concept |-> <<"C","O","N","C","E","P","T">>,
     Other |-> <<"O","T","H","E","R">>, Technique |-> <<"T","E","C","H","N","I","Q","U","E">>]

LabelPool == <<"ORG", "ML_PATTERN">>

\* The k-th EntityCandidate of the corpus: three spellings of one mention, a
\* one-letter mention, then distinct five-letter mentions.
Corpus(k) ==
    LET chunk == 1 + (k % 2)
        label == LabelPool[1 + (k % 2)]
    IN CASE k = 1 -> [text |-> <<" ","s","v","m">>, chunk_id |-> 1, label |-> "ORG"]
         [] k = 2 -> [text |-> <<"S","V","M">>, chunk_id |-> 2, label |-> "ML_PATTERN"]
         [] k = 3 -> [text |-> <<"s","v","m">>, chunk_id |-> 1, label |-> "ORG"]
         [] k = 4 -> [text |-> <<"k">>, chunk_id |-> 2, label |-> "ORG"]
         [] OTHER -> [text |-> <<"e","n","t", DigitSeq[1 + ((k \div 10) % 10)],
                                 DigitSeq[1 + (k % 10)]>>,
                      chunk_id |-> chunk, label |-> label]

NormStatsInit == [batches_processed |-> 0, entities_input |-> 0,
                  entities_output |-> 0, llm_calls |-> 0]

\* Counter(entity.text.strip() for entity in entities): the distinct stripped
\* texts in order of first occurrence
RECURSIVE DistinctTexts(_, _)
DistinctTexts(entities, seen) ==
    IF entities = <<>> THEN seen
    ELSE LET tx == Strip(Head(entities).text)
         IN DistinctTexts(Tail(entities),
                IF \E i \in 1..Len(seen) : seen[i] = tx THEN seen ELSE Append(seen, tx))

CountText(entities, tx) ==
    Cardinality({k \in 1..Len(entities) : Strip(entities[k].text) = tx})

\* the filter with the length test one character looser
FrequentFromThree(entities, tx) == CountText(entities, tx) >= 2 \/ Len(tx) >= 3

\* if count >= 2 or len(entity_text) > 3
Frequent(entities, tx) == CountText(entities, tx) >= 2 \/ Len(tx) > 3

frequent_entities(entities) ==
    SelectSeq(DistinctTexts(entities, <<>>), LAMBDA tx : Frequent(entities, tx))

\* _group_similar_entities(entities): range(0, len(frequent_entities), batch_size)
_group_similar_entities(entities) ==
    LET fe == frequent_entities(entities)
        nb == (Len(fe) + batch_size - 1) \div batch_size
    IN [b \in 1..nb |->
          SubSeq(fe, (b - 1) * batch_size + 1,
                 IF b * batch_size < Len(fe) THEN b * batch_size ELSE Len(fe))]

\* list(set(...)) of integers under the process's hash order
RECURSIVE SetToList(_, _)
SetToList(S, seed) ==
    IF S = {} THEN <<>>
    ELSE LET x == IF seed = 1 THEN CHOOSE y \in S : \A z \in S : y <= z
                  ELSE CHOOSE y \in S : \A z \in S : y >= z
         IN <<x>> \o SetToList(S \ {x}, seed)

LabelIndex(l) == CHOOSE i \in 1..Len(LabelPool) : LabelPool[i] = l

\* e.text.strip().lower() in [alias.lower() for alias in [canonical_name] + aliases]
Mentions(text, lowered) ==
    \E i \in 1..Len(lowered) : text = lowered[i]

\* total_freq: sum over [canonical_name] + aliases of the candidates equal to it
\* (texts[k] is entities[k].text.strip().lower())
RECURSIVE total_freq(_, _)
total_freq(texts, names) ==
    IF names = <<>> THEN 0
    ELSE LET alias == Lower(Head(names))
         IN Cardinality({k \in 1..Len(texts) : texts[k] = alias})
            + total_freq(texts, Tail(names))

\* The body of the inner try of normalize_entities for one parsed entity:
\* <<>> when it is skipped (not a dict of the expected shape, which raises and
\* is caught, or an empty canonical_name), else <<NormalizedEntity>>.
NormalizeOne(norm_entity, entities, seed) ==
    IF ~norm_entity.dict THEN <<>>
    ELSE LET canonical_name == Strip(norm_entity.canonical_name)
             aliases == norm_entity.aliases
             names == <<canonical_name>> \o aliases
             lowered == [i \in 1..Len(names) |-> Lower(names[i])]
             texts == [k \in 1..Len(entities) |-> Lower(Strip(entities[k].text))]
             hits == {k \in 1..Len(entities) : Mentions(texts[k], lowered)}
         IN IF canonical_name = <<>> THEN <<>>
            ELSE << [canonical_name |-> canonical_name,
                     entity_type |-> IF norm_entity.has_type THEN norm_entity.type ELSE EntityTypes.Other,
                     aliases |-> aliases,
                     frequency |-> total_freq(texts, names),
                     confidence |-> 1,
                     source_chunks |-> SetToList({entities[k].chunk_id : k \in hits}, seed),
                     original_labels |->
                        LET ix == SetToList({LabelIndex(entities[k].label) : k \in hits}, seed)
                        IN [j \in 1..Len(ix) |-> LabelPool[ix[j]]]] >>

HasKey(mapping, name) == \E i \in 1..Len(mapping) : mapping[i].canonical_name = name

\* all_normalized[canonical_name] = normalized_entity
KeepFirst(mapping, e) ==
    IF HasKey(mapping, e.canonical_name) THEN mapping ELSE Append(mapping, e)
Insert(mapping, e) ==
    IF HasKey(mapping, e.canonical_name)
    THEN [i \in 1..Len(mapping) |->
            IF mapping[i].canonical_name = e.canonical_name THEN e ELSE mapping[i]]
    ELSE Append(mapping, e)

RECURSIVE InsertAll(_, _)
InsertAll(mapping, es) ==
    IF es = <<>> THEN mapping ELSE InsertAll(Insert(mapping, Head(es)), Tail(es))

\* for norm_entity in normalized_batch: the NormalizedEntity objects built, in order
RECURSIVE NormalizeBatch(_, _, _)
NormalizeBatch(parsed, entities, seed) ==
    IF parsed = <<>> THEN <<>>
    ELSE NormalizeOne(Head(parsed), entities, seed)
            \o NormalizeBatch(Tail(parsed), entities, seed)

\* the for statement over entity_batches: where the loop goes after batch i,
\* which raised or not (the except clause ends in `continue`)
AbortOnFailure(i, failed, nbatches) == IF failed THEN nbatches + 1 ELSE i + 1
AfterBatch(i, failed, nbatches) == i + 1

-----------------------------------------------------------------------------
(* Inputs of the normalizer: what the LLM may answer for a batch *)

RawEntities ==
    { [dict |-> TRUE, canonical_name |-> <<" ","S","v","m"," ">>, has_type |-> TRUE,
       type |-> EntityTypes.Algorithm, aliases |-> << <<"S","V","M">> >>],
      [dict |-> TRUE, canonical_name |-> Names.Svm, has_type |-> FALSE,
       type |-> <<>>, aliases |-> << Names.Svm, <<"e","n","t","0","5">> >>],
      [dict |-> TRUE, canonical_name |-> <<"Z","e","d">>, has_type |-> TRUE,
       type |-> EntityTypes.Technique, aliases |-> <<>>],
      [dict |-> TRUE, canonical_name |-> <<" ">>, has_type |-> TRUE,
       type |-> EntityTypes.Concept, aliases |-> <<>>],
      [dict |-> FALSE, canonical_name |-> <<>>, has_type |-> FALSE,
       type |-> <<>>, aliases |-> <<>>] }

\* chat_raises   ollama.chat raises
\* bad_envelope  the reply has no ['message']['content']
\* not_iterable  the JSON's "normalized_entities" value cannot be iterated
\* parsed        _parse_llm_response returns outcome.entities (the empty list
\*               when both parsers reject the text; the manual parser yields
\*               entities with a type and empty aliases)
NormResponses ==
    { [kind |-> k, entities |-> <<>>] : k \in {"chat_raises", "bad_envelope", "not_iterable"} }
    \cup { [kind |-> "parsed", entities |-> es] : es \in SeqsUpTo(RawEntities, MaxEmit) }

-----------------------------------------------------------------------------
(* KnowledgeGraphBuilder: RDF terms *)

\* A URI is a namespace and a local name; a literal is a lexical form and a
\* datatype (in ns). Local names and lexical forms that the code computes
\* from strings are character sequences (v); the fixed terms of rdf, rdfs and
\* owl and the fixed descriptions are atoms (a).
URI(ns, local) == [k |-> "uri", ns |-> ns, v |-> local, a |-> ""]
Term(ns, atom) == [k |-> "uri", ns |-> ns, v |-> <<>>, a |-> atom]
Literal(text)  == [k |-> "lit", ns |-> "", v |-> text, a |-> ""]
Text(atom)     == [k |-> "lit", ns |-> "", v |-> <<>>, a |-> atom]
Typed(text, datatype) == [k |-> "lit", ns |-> datatype, v |-> text, a |-> ""]

\* RDF, RDFS and OWL of rdflib.namespace
rdf == [type |-> Term("rdf", "type")]
rdfs == [label |-> Term("rdfs", "label"), comment |-> Term("rdfs", "comment"),
         subClassOf |-> Term("rdfs", "subClassOf")]
owl == [Class |-> Term("owl", "Class"), ObjectProperty |-> Term("owl", "ObjectProperty")]

\* self.ML[...], self.ENTITY[...], self.RELATION[...]
ML(local) == URI("ml", local)
ENTITY(local) == URI("entity", local)
RELATION(local) == URI("relation", local)

\* the fixed terms self.ML.<name> of the builder
ml ==
    [ Entity |-> ML(<<"E","n","t","i","t","y">>),
      Relation |-> ML(<<"R","e","l","a","t","i","o","n">>),
      canonicalName |-> ML(<<"c","a","n","o","n","i","c","a","l","N","a","m","e">>),
      alias |-> ML(<<"a","l","i","a","s">>),
      frequency |-> ML(<<"f","r","e","q","u","e","n","c","y">>),
      confidence |-> ML(<<"c","o","n","f","i","d","e","n","c","e">>),
      sourceChunk |-> ML(<<"s","o","u","r","c","e","C","h","u","n","k">>),
      subject |-> ML(<<"s","u","b","j","e","c","t">>),
      predicate |-> ML(<<"p","r","e","d","i","c","a","t","e">>),
      object |-> ML(<<"o","b","j","e","c","t">>),
      context |-> ML(<<"c","o","n","t","e","x","t">>),
      MLKnowledgeGraph |-> ML(<<"M","L","K","n","o","w","l","e","d","g","e","G","r","a","p","h">>),
      KnowledgeGraph |-> ML(<<"K","n","o","w","l","e","d","g","e","G","r","a","p","h">>),
      totalEntities |-> ML(<<"t","o","t","a","l","E","n","t","i","t","i","e","s">>),
      totalRelations |-> ML(<<"t","o","t","a","l","R","e","l","a","t","i","o","n","s">>),
      totalTriples |-> ML(<<"t","o","t","a","l","T","r","i","p","l","e","s">>)]

\* str(n) of a natural number
RECURSIVE ToDigits(_)
ToDigits(n) == IF n < 10 THEN <<DigitSeq[n + 1]>>
               ELSE ToDigits(n \div 10) \o <<DigitSeq[(n % 10) + 1]>>

\* \w of the re module, on the characters of the model
IsWordChar(c) ==
    IsUpper(c) \/ IsLowerChar(c) \/ c \in DigitChars \/ c = "_" \/ c \in AccentedChars

\* re.sub(r'\s+', '_', s)
RECURSIVE CollapseWhitespace(_)
CollapseWhitespace(s) ==
    IF s = <<>> THEN <<>>
    ELSE IF Head(s) \in Whitespace
         THEN <<"_">> \o CollapseWhitespace(LStrip(s))
         ELSE <<Head(s)>> \o CollapseWhitespace(Tail(s))

\* str.strip('_')
RECURSIVE StripUnderscores(_)
StripUnderscores(s) ==
    IF s # <<>> /\ Head(s) = "_" THEN StripUnderscores(Tail(s))
    ELSE IF s # <<>> /\ s[Len(s)] = "_" THEN StripUnderscores(SubSeq(s, 1, Len(s) - 1))
    ELSE s

\* the local name that _create_entity_uri gives entity_name
EntityToken(entity_name) ==
    LET kept == SelectSeq(entity_name,
                   LAMBDA c : IsWordChar(c) \/ c \in Whitespace \/ c = "-")
    IN StripUnderscores(Lower(CollapseWhitespace(kept)))

_create_entity_uri(entity_name) == ENTITY(EntityToken(entity_name))

\* _create_relation_uri: self.RELATION[relation_name.lower()]
_create_relation_uri(relation_name) == RELATION(Lower(relation_name))

\* str.replace(old, new) for one-character old and new
Replace(s, old, new) == [i \in 1..Len(s) |-> IF s[i] = old THEN new ELSE s[i]]

-----------------------------------------------------------------------------
(* KnowledgeGraphBuilder: operations on the graph *)

\* _add_entity_type_class: the class triples, added once
EntityTypeClass(entity_type) == ML(Replace(Lower(entity_type), " ", "_"))

_add_entity_type_class(g, entity_type) ==
    LET class_uri == EntityTypeClass(entity_type)
    IN IF <<class_uri, rdf.type, owl.Class>> \in g THEN g
       ELSE g \cup { <<class_uri, rdf.type, owl.Class>>,
                     <<class_uri, rdfs.label, Literal(entity_type)>>,
                     <<class_uri, rdfs.subClassOf, ml.Entity>> }

\* _add_relation_property: the property triples, added once
_add_relation_property(g, relation_type) ==
    LET property_uri == _create_relation_uri(relation_type)
    IN IF <<property_uri, rdf.type, owl.ObjectProperty>> \in g THEN g
       ELSE g \cup { <<property_uri, rdf.type, owl.ObjectProperty>>,
                     <<property_uri, rdfs.label, Literal(Replace(relation_type, "_", " "))>> }

main_classes ==
   << << <<"A","l","g","o","r","i","t","h","m">>, "Machine Learning Algorithm" >>,
      << <<"C","o","n","c","e","p","t">>, "Machine Learning Concept" >>,
      << <<"P","e","r","s","o","n">>, "Person or Researcher" >>,
      << <<"O","r","g","a","n","i","z","a","t","i","o","n">>, "Organization or Institution" >>,
      << <<"S","o","f","t","w","a","r","e">>, "Software or Tool" >>,
      << <<"M","e","t","r","i","c">>, "Evaluation Metric" >>,
      << <<"D","a","t","a","s","e","t">>, "Dataset or Data Source" >>,
      << <<"P","u","b","l","i","c","a","t","i","o","n">>, "Academic Publication" >> >>

main_properties ==
   << << <<"i","s","_","a">>, "is a type of" >>,
      << <<"p","a","r","t","_","o","f">>, "is part of" >>,
      << <<"u","s","e","s">>, "uses or utilizes" >>,
      << <<"i","m","p","l","e","m","e","n","t","s">>, "implements" >>,
      << <<"o","p","t","i","m","i","z","e","s">>, "optimizes" >>,
      << <<"m","e","a","s","u","r","e","s">>, "measures or evaluates" >>,
      << <<"c","r","e","a","t","e","d","_","b","y">>, "was created by" >>,
      << <<"a","p","p","l","i","e","s","_","t","o">>, "applies to" >> >>

\* the triples add_ontology_schema adds
SchemaTriples ==
    { <<ml.Entity, rdf.type, owl.Class>>,
      <<ml.Entity, rdfs.label, Text("Machine Learning Entity")>> }
    \cup UNION { LET class_uri == ML(Lower(main_classes[i][1]))
                 IN { <<class_uri, rdf.type, owl.Class>>,
                      <<class_uri, rdfs.label, Literal(main_classes[i][1])>>,
                      <<class_uri, rdfs.comment, Text(main_classes[i][2])>>,
                      <<class_uri, rdfs.subClassOf, ml.Entity>> }
                 : i \in 1..Len(main_classes) }
    \cup UNION { LET prop_uri == _create_relation_uri(main_properties[i][1])
                 IN { <<prop_uri, rdf.type, owl.ObjectProperty>>,
                      <<prop_uri, rdfs.label,
                        Literal(Replace(main_properties[i][1], "_", " "))>>,
                      <<prop_uri, rdfs.comment, Text(main_properties[i][2])>> }
                 : i \in 1..Len(main_properties) }

\* a schema that stamps the graph with its size at the time of the call
StampedSchema(g) ==
    g \cup SchemaTriples
      \cup { <<ml.Entity, ml.totalTriples, Typed(ToDigits(Cardinality(g)), "integer")>> }

\* add_ontology_schema: graph.add of each schema triple; an rdflib Graph is a
\* set of triples, so adding one it already holds changes nothing
add_ontology_schema(g) == g \cup SchemaTriples

source_chunk_cap == 5

\* entity_data.source_chunks[:5]
NoCap(chunks) == chunks
FirstChunks(chunks) ==
    SubSeq(chunks, 1, IF Len(chunks) < source_chunk_cap THEN Len(chunks)
                      ELSE source_chunk_cap)

\* the value of a field of the LLM's JSON that is not a string (null): the
\* normalizer stores norm_entity.get('type', 'OTHER') as it comes
JsonNull == <<"null">>

\* None where a list is expected
NullList == << JsonNull >>

\* The body of the try of add_entities for one item of the mapping, whose key
\* is the NormalizedEntity's canonical_name. entity_type.lower() raises on a
\* type that is not a string, before any triple of the entity is added;
\* `for alias in entity_data.aliases` raises on aliases that are None, after
\* the class and the basic triples were added. The except clause logs and
\* goes on to the next item; nothing is taken back.
AddEntity(kg, entity_data) ==
    IF entity_data.entity_type = JsonNull THEN kg ELSE
    LET entity_name == entity_data.canonical_name
        entity_uri == _create_entity_uri(entity_name)
        entity_type == entity_data.entity_type
        class_uri == EntityTypeClass(entity_type)
        basic == _add_entity_type_class(kg.graph, entity_type)
                   \cup { <<entity_uri, rdf.type, class_uri>>,
                          <<entity_uri, rdfs.label, Literal(entity_name)>>,
                          <<entity_uri, ml.canonicalName, Literal(entity_name)>> }
        aliases == { <<entity_uri, ml.alias, Literal(entity_data.aliases[i])>> :
                       i \in {j \in 1..Len(entity_data.aliases) :
                                /\ entity_data.aliases[j] # <<>>
                                /\ entity_data.aliases[j] # entity_name} }
        metadata == { <<entity_uri, ml.frequency,
                        Typed(ToDigits(entity_data.frequency), "integer")>>,
                      <<entity_uri, ml.confidence,
                        Typed(ToDigits(entity_data.confidence) \o <<".","0">>, "float")>> }
        chunks == LET cs == FirstChunks(entity_data.source_chunks)
                  IN { <<entity_uri, ml.sourceChunk, Literal(ToDigits(cs[i]))>> :
                         i \in 1..Len(cs) }
    IN IF entity_data.aliases = NullList
       THEN [graph |-> basic, stats |-> kg.stats]
       ELSE
       [graph |-> basic \cup aliases \cup metadata \cup chunks,
        stats |-> [kg.stats EXCEPT
            !.entities_added = @ + 1,
            !.entity_types =
                [t \in DOMAIN @ \cup {entity_type} |->
                    IF t = entity_type
                    THEN (IF t \in DOMAIN @ THEN @[t] ELSE 0) + 1
                    ELSE @[t]]]]

\* add_entities(normalized_entities): the items of the dict, in order
RECURSIVE add_entities(_, _)
add_entities(kg, normalized_entities) ==
    IF normalized_entities = <<>> THEN kg
    ELSE add_entities(AddEntity(kg, Head(normalized_entities)), Tail(normalized_entities))

\* The body of the try of add_relations for one Relation. A subject, object
\* or predicate that is not a string raises in re.sub or lower(), before any
\* triple is added.
AddRelation(kg, relation) ==
    IF JsonNull \in {relation.subject, relation.object, relation.predicate} THEN kg ELSE
    LET subject_uri == _create_entity_uri(relation.subject)
        object_uri == _create_entity_uri(relation.object)
        predicate_uri == _create_relation_uri(relation.predicate)
        relation_instance_uri ==
            ENTITY(<<"r","e","l","_">> \o ToDigits(kg.stats.relations_added))
    IN [graph |-> _add_relation_property(kg.graph, relation.predicate)
                    \cup { <<subject_uri, predicate_uri, object_uri>>,
                           <<relation_instance_uri, rdf.type, ml.Relation>>,
                           <<relation_instance_uri, ml.subject, subject_uri>>,
                           <<relation_instance_uri, ml.predicate, predicate_uri>>,
                           <<relation_instance_uri, ml.object, object_uri>>,
                           <<relation_instance_uri, ml.context, Literal(relation.context)>>,
                           <<relation_instance_uri, ml.sourceChunk,
                             Literal(ToDigits(relation.chunk_id))>>,
                           <<relation_instance_uri, ml.confidence,
                             Typed(ToDigits(relation.confidence) \o <<".","0">>, "float")>> },
        stats |-> [kg.stats EXCEPT
            !.relations_added = @ + 1,
            !.relation_types =
                [t \in DOMAIN @ \cup {relation.predicate} |->
                    IF t = relation.predicate
                    THEN (IF t \in DOMAIN @ THEN @[t] ELSE 0) + 1
                    ELSE @[t]]]]

\* add_relations(relations)
RECURSIVE add_relations(_, _)
add_relations(kg, relations) ==
    IF relations = <<>> THEN kg
    ELSE add_relations(AddRelation(kg, Head(relations)), Tail(relations))

\* what datetime.now() may give after a reading of `last`: the clock's ticks
\* are numbered, and the clock has not advanced or has advanced by one
Readings(last) == {last, last + 1}

\* add_metadata: the triples about the graph itself; `now` is the tick
\* datetime.now() gives, its digits stand for the isoformat() text
add_metadata(kg, now) ==
    LET kg_uri == ml.MLKnowledgeGraph
        basic == kg.graph \cup
            { <<kg_uri, rdf.type, ml.KnowledgeGraph>>,
              <<kg_uri, rdfs.label, Text("Machine Learning Knowledge Graph")>>,
              <<kg_uri, Term("dcterms", "title"),
                Text("ML/DL Knowledge Graph from Academic Literature")>>,
              <<kg_uri, Term("dcterms", "description"),
                Text("Knowledge graph extracted from machine learning and deep learning academic texts")>>,
              <<kg_uri, Term("dcterms", "created"), Typed(ToDigits(now), "dateTime")>> }
        counted == basic \cup
            { <<kg_uri, ml.totalEntities,
                Typed(ToDigits(kg.stats.entities_added), "integer")>>,
              <<kg_uri, ml.totalRelations,
                Typed(ToDigits(kg.stats.relations_added), "integer")>> }
    IN [kg EXCEPT !.graph = counted \cup
            { <<kg_uri, ml.totalTriples,
                Typed(ToDigits(Cardinality(counted)), "integer")>> }]

KGStatsInit == [entities_added |-> 0, relations_added |-> 0,
                entity_types |-> <<>>, relation_types |-> <<>>]

\* map_entities_to_chunks(normalized_entities): for each chunk id, in the
\* order the ids are first met, the names of the entities that have it among
\* their source_chunks, in the order of the dict; the chunks with fewer than
\* two names are dropped. (The chunks kept from the inputs of the model are
\* numbered 1..n, as the keys of chunks_entities are.)
RECURSIVE ChunkOrder(_, _)
ChunkOrder(ids, seen) ==
    IF ids = <<>> THEN <<>>
    ELSE IF Head(ids) \in seen THEN ChunkOrder(Tail(ids), seen)
    ELSE <<Head(ids)>> \o ChunkOrder(Tail(ids), seen \cup {Head(ids)})

map_entities_to_chunks(normalized_entities) ==
    LET HasChunk(e, c) == \E i \in 1..Len(e.source_chunks) : e.source_chunks[i] = c
        names(c) == LET In(e) == HasChunk(e, c)
                        es == SelectSeq(normalized_entities, In)
                    IN [k \in 1..Len(es) |-> es[k].canonical_name]
        order == ChunkOrder(Concat([k \in 1..Len(normalized_entities) |->
                                      normalized_entities[k].source_chunks]), {})
        Kept(c) == Len(names(c)) >= 2
        kept == SelectSeq(order, Kept)
    IN [k \in 1..Len(kept) |-> [entities |-> names(kept[k]), present |-> TRUE]]

\* build_knowledge_graph(output_format) up to add_metadata, on a new builder
BuiltGraph(normalized_entities, relations, now) ==
    LET builder == [graph |-> add_ontology_schema({}), stats |-> KGStatsInit]
    IN add_metadata(add_relations(add_entities(builder, normalized_entities), relations),
                    now)

\* the formats main() builds, in its order: 'turtle', then the list `formats`
output_formats == <<"turtle", "xml", "n3", "json-ld">>

\* files[f]: the triples graph.serialize(format=f) wrote to data/ml_kg.<f>
NoBuild == [files |-> [f \in {} |-> {}], next |-> 1, clock |-> 0, ended |-> FALSE]

-----------------------------------------------------------------------------
(* Query layer: the WHAT_IS_TYPE_OF template, the executor and the formatter *)

\* graph.query(QueryTemplates.what_is_type_of(entity_name)) followed by the
\* row conversion of execute_sparql: one row per parent and label of the
\* parent, one row without parentLabel for a parent that has no label.
what_is_type_of(g, entity_name) ==
    LET subject == ENTITY(entity_name)
        is_a_uri == RELATION(<<"i","s","_","a">>)
        parents == {t[3] : t \in {u \in g : u[1] = subject /\ u[2] = is_a_uri}}
        labels(p) == {t[3] : t \in {u \in g : u[1] = p /\ u[2] = rdfs.label}}
    IN UNION { IF labels(p) = {}
               THEN { [parent |-> p, has_label |-> FALSE, parentLabel |-> <<>>] }
               ELSE { [parent |-> p, has_label |-> l.v # <<>> \/ l.a # "",
                       parentLabel |-> l.v] : l \in labels(p) }
               : p \in parents }

\* graph.query(QueryTemplates.who_created_entity(entity_name)) followed by the
\* row conversion of execute_sparql: the union of the developed_by and the
\* proposed_by block, one row per creator and label of the creator
who_created_entity(g, entity_name) ==
    LET subject == ENTITY(entity_name)
        blocks == { RELATION(<<"d","e","v","e","l","o","p","e","d","_","b","y">>),
                    RELATION(<<"p","r","o","p","o","s","e","d","_","b","y">>) }
        creators == {t[3] : t \in {u \in g : u[1] = subject /\ u[2] \in blocks}}
        labels(c) == {t[3] : t \in {u \in g : u[1] = c /\ u[2] = rdfs.label}}
    IN UNION { IF labels(c) = {}
               THEN { [creator |-> c, has_label |-> FALSE, creatorLabel |-> <<>>] }
               ELSE { [creator |-> c, has_label |-> l.v # <<>> \/ l.a # "",
                       creatorLabel |-> l.v] : l \in labels(c) }
               : c \in creators }

\* the namespace URI of a node, as the executor's toPython() prints it, ends
\* in '/' (ml, entity, relation) or holds a '#' (rdf, rdfs, owl): _clean_uri
\* keeps what follows the last one
_clean_uri(node) == node.v

\* _format_type_of_response: unique_parents, as a set
ParentLabel(row) ==
    IF row.has_label THEN row.parentLabel ELSE _clean_uri(row.parent)

unique_parents(rows) ==
    {ParentLabel(r) : r \in rows} \ { <<>>, <<"N","/","A">> }

NoQuery == [asked |-> FALSE, token |-> <<>>, rows |-> {}, parents |-> {}]

-----------------------------------------------------------------------------
(* QueryProcessor: entity tokens *)

\* str.split(): the maximal runs of non-whitespace characters
RECURSIVE Split(_)
Split(s) ==
    LET t == LStrip(s)
        n == IF \E i \in 1..Len(t) : t[i] \in Whitespace
             THEN (CHOOSE i \in 1..Len(t) :
                      t[i] \in Whitespace /\ \A j \in 1..(i-1) : t[j] \notin Whitespace) - 1
             ELSE Len(t)
    IN IF t = <<>> THEN <<>>
       ELSE <<SubSeq(t, 1, n)>> \o Split(SubSeq(t, n + 1, Len(t)))

\* sep.join(words) for a one-character sep
RECURSIVE Join(_, _)
Join(words, sep) ==
    IF words = <<>> THEN <<>>
    ELSE IF Len(words) = 1 THEN words[1]
    ELSE words[1] \o <<sep>> \o Join(Tail(words), sep)

stop_words ==
    { <<"o">>, <<"a">>, <<"o","s">>, <<"a","s">>, <<"d","e">>, <<"d","a">>,
      <<"d","o">>, <<"d","a","s">>, <<"d","o","s">>, <<"t","h","e">>,
      <<"o","f">>, <<"f","o","r">> }

\* _normalize_entity_name(entity)
_normalize_entity_name(entity) ==
    LET words == Split(Lower(entity))
        filtered_words == SelectSeq(words, LAMBDA word : word \notin stop_words)
        normalized == Join(filtered_words, "_")
    IN SelectSeq(normalized,
                 LAMBDA c : IsLowerChar(c) \/ c \in DigitChars \/ c = "_")

-----------------------------------------------------------------------------
(* QueryProcessor: the regular expressions of _setup_patterns *)

\* A pattern is a tree of the constructs the patterns use. Matching follows
\* the backtracking order of the re module: alternatives left to right,
\* greedy repetitions longest first, lazy ones shortest first.
Lit(s) == [t |-> "lit", s |-> s]                \* literal text
Opt(c) == [t |-> "opt", s |-> <<c>>]            \* c?
Alt(es) == [t |-> "alt", es |-> es]             \* e1|e2|...
Cat(es) == [t |-> "cat", es |-> es]             \* e1 e2 ...
Group(n, e) == [t |-> "grp", n |-> n, e |-> e]  \* capturing group n
\* a repetition: "name+" is [a-zA-Z_\s]+, "space+" is \s+, "any*" is .* and
\* "any*?" is .*?
Rep(kind) == [t |-> kind]

\* the characters a repetition of kind t accepts
Accepts(t, c) ==
    CASE t = "name+" -> IsUpper(c) \/ IsLowerChar(c) \/ c = "_" \/ c \in Whitespace
      [] t = "space+" -> c \in Whitespace
      [] OTHER -> c # "\n"

\* how many characters from position i on a repetition of kind t can take
RECURSIVE Run(_, _, _)
Run(t, text, i) ==
    IF i <= Len(text) /\ Accepts(t, text[i]) THEN 1 + Run(t, text, i + 1) ELSE 0

\* re.IGNORECASE: the literal s is at position i of text
LitAt(s, text, i) ==
    /\ i + Len(s) - 1 <= Len(text)
    /\ \A k \in 1..Len(s) : LowerChar(text[i + k - 1]) = LowerChar(s[k])

\* The ways e can match text from position i with the groups captured so far,
\* in the order the matcher tries them: each is the position after the match
\* and the groups captured.
RECURSIVE Ends(_, _, _, _)
RECURSIVE EndsCat(_, _, _, _)
RECURSIVE EndsAlt(_, _, _, _)
RECURSIVE EndsEach(_, _, _)
Ends(e, text, i, groups) ==
    CASE e.t = "lit" ->
            IF LitAt(e.s, text, i) THEN << [i |-> i + Len(e.s), groups |-> groups] >>
            ELSE <<>>
      [] e.t = "opt" ->
            (IF LitAt(e.s, text, i) THEN << [i |-> i + 1, groups |-> groups] >>
             ELSE <<>>) \o << [i |-> i, groups |-> groups] >>
      [] e.t \in {"name+", "space+"} ->
            LET r == Run(e.t, text, i)
            IN [k \in 1..r |-> [i |-> i + r - k + 1, groups |-> groups]]
      [] e.t = "any*" ->
            LET r == Run(e.t, text, i)
            IN [k \in 1..(r + 1) |-> [i |-> i + r - k + 1, groups |-> groups]]
      [] e.t = "any*?" ->
            LET r == Run(e.t, text, i)
            IN [k \in 1..(r + 1) |-> [i |-> i + k - 1, groups |-> groups]]
      [] e.t = "alt" -> EndsAlt(e.es, text, i, groups)
      [] e.t = "cat" -> EndsCat(e.es, text, i, groups)
      [] e.t = "grp" ->
            LET inner == Ends(e.e, text, i, groups)
            IN [k \in 1..Len(inner) |->
                  [i |-> inner[k].i,
                   groups |-> [inner[k].groups EXCEPT
                                  ![e.n] = SubSeq(text, i, inner[k].i - 1)]]]

EndsAlt(es, text, i, groups) ==
    IF es = <<>> THEN <<>>
    ELSE Ends(Head(es), text, i, groups) \o EndsAlt(Tail(es), text, i, groups)

EndsCat(es, text, i, groups) ==
    IF es = <<>> THEN << [i |-> i, groups |-> groups] >>
    ELSE EndsEach(Ends(Head(es), text, i, groups), Tail(es), text)

EndsEach(firsts, rest, text) ==
    IF firsts = <<>> THEN <<>>
    ELSE EndsCat(rest, text, Head(firsts).i, Head(firsts).groups)
            \o EndsEach(Tail(firsts), rest, text)

NoMatch == [found |-> FALSE, groups |-> << <<>>, <<>> >>]

\* re.search(pattern, text, re.IGNORECASE): the first way to match at the
\* leftmost position that has one
RECURSIVE SearchFrom(_, _, _)
SearchFrom(pattern, text, i) ==
    IF i > Len(text) + 1 THEN NoMatch
    ELSE LET ends == Ends(pattern, text, i, NoMatch.groups)
         IN IF ends # <<>> THEN [found |-> TRUE, groups |-> ends[1].groups]
            ELSE SearchFrom(pattern, text, i + 1)

Search(pattern, text) == SearchFrom(pattern, text, 1)

\* (algoritmos?|algorithms?|conceitos?|concepts?|me'tricas?|metrics?)
EntityTypeWord ==
    Group(1, Alt(<<Cat(<<Lit(<<"a","l","g","o","r","i","t","m","o">>), Opt("s")>>),
        Cat(<<Lit(<<"a","l","g","o","r","i","t","h","m">>), Opt("s")>>),
        Cat(<<Lit(<<"c","o","n","c","e","i","t","o">>), Opt("s")>>),
        Cat(<<Lit(<<"c","o","n","c","e","p","t">>), Opt("s")>>),
        Cat(<<Lit(<<"m","e'","t","r","i","c","a">>), Opt("s")>>),
        Cat(<<Lit(<<"m","e","t","r","i","c">>), Opt("s")>>)>>))

what_is_patterns ==
    << \* (?:o que e'|what is|define|definic,a~o de|conceito de)\s+([a-zA-Z_\s]+)
       Cat(<<Alt(<<Lit(<<"o"," ","q","u","e"," ","e'">>),
           Lit(<<"w","h","a","t"," ","i","s">>), Lit(<<"d","e","f","i","n","e">>),
           Lit(<<"d","e","f","i","n","i","c,","a~","o"," ","d","e">>),
           Lit(<<"c","o","n","c","e","i","t","o"," ","d","e">>)>>), Rep("space+"),
           Group(1, Rep("name+"))>>),
       \* ([a-zA-Z_\s]+)\s+(?:e' o que|e'|significa o que)
       Cat(<<Group(1, Rep("name+")), Rep("space+"), Alt(<<Lit(<<"e'"," ","o"," ","q","u","e">>),
           Lit(<<"e'">>),
           Lit(<<"s","i","g","n","i","f","i","c","a"," ","o"," ","q","u","e">>)>>)>>),
       \* (?:explique|explain)\s+([a-zA-Z_\s]+)
       Cat(<<Alt(<<Lit(<<"e","x","p","l","i","q","u","e">>),
           Lit(<<"e","x","p","l","a","i","n">>)>>), Rep("space+"), Group(1, Rep("name+"))>>) >>

what_uses_patterns ==
    << \* (?:o que usa|what uses|quais?.*usam?|algoritmos? que usam?)\s+([a-zA-Z_\s]+)
       Cat(<<Alt(<<Lit(<<"o"," ","q","u","e"," ","u","s","a">>),
           Lit(<<"w","h","a","t"," ","u","s","e","s">>),
           Cat(<<Lit(<<"q","u","a","i">>), Opt("s"), Rep("any*"),
           Lit(<<"u","s","a">>), Opt("m")>>),
           Cat(<<Lit(<<"a","l","g","o","r","i","t","m","o">>), Opt("s"),
           Lit(<<" ","q","u","e"," ","u","s","a">>), Opt("m")>>)>>), Rep("space+"),
           Group(1, Rep("name+"))>>),
       \* (?:quais?|what).*(?:implementam?|implement)\s+([a-zA-Z_\s]+)
       Cat(<<Alt(<<Cat(<<Lit(<<"q","u","a","i">>), Opt("s")>>), Lit(<<"w","h","a","t">>)>>),
           Rep("any*"),
           Alt(<<Cat(<<Lit(<<"i","m","p","l","e","m","e","n","t","a">>), Opt("m")>>),
           Lit(<<"i","m","p","l","e","m","e","n","t">>)>>), Rep("space+"), Group(1, Rep("name+"))>>),
       \* (?:find|encontre).*(?:que usa|that uses?)\s+([a-zA-Z_\s]+)
       Cat(<<Alt(<<Lit(<<"f","i","n","d">>), Lit(<<"e","n","c","o","n","t","r","e">>)>>),
           Rep("any*"), Alt(<<Lit(<<"q","u","e"," ","u","s","a">>),
           Cat(<<Lit(<<"t","h","a","t"," ","u","s","e">>), Opt("s")>>)>>), Rep("space+"),
           Group(1, Rep("name+"))>>) >>

type_of_patterns ==
    << \* ([a-zA-Z_\s]+)\s+(?:e' um tipo de que|is a type of what|e' uma subclasse de)
       Cat(<<Group(1, Rep("name+")), Rep("space+"),
           Alt(<<Lit(<<"e'"," ","u","m"," ","t","i","p","o"," ","d","e"," ","q","u","e">>),
           Lit(<<"i","s"," ","a"," ","t","y","p","e"," ","o","f"," ","w","h","a","t">>),
           Lit(<<"e'"," ","u","m","a"," ","s","u","b","c","l","a","s","s","e"," ","d","e">>)>>)>>),
       \* (?:que tipo de|what type of).*(?:e'|is)\s+([a-zA-Z_\s]+)
       Cat(<<Alt(<<Lit(<<"q","u","e"," ","t","i","p","o"," ","d","e">>),
           Lit(<<"w","h","a","t"," ","t","y","p","e"," ","o","f">>)>>), Rep("any*"),
           Alt(<<Lit(<<"e'">>), Lit(<<"i","s">>)>>), Rep("space+"), Group(1, Rep("name+"))>>),
       \* ([a-zA-Z_\s]+)\s+(?:extends|estende|herda de)
       Cat(<<Group(1, Rep("name+")), Rep("space+"), Alt(<<Lit(<<"e","x","t","e","n","d","s">>),
           Lit(<<"e","s","t","e","n","d","e">>),
           Lit(<<"h","e","r","d","a"," ","d","e">>)>>)>>) >>

who_created_patterns ==
    << \* (?:quem criou|who created|quem desenvolveu|who developed)\s+([a-zA-Z_\s]+)
       Cat(<<Alt(<<Lit(<<"q","u","e","m"," ","c","r","i","o","u">>),
           Lit(<<"w","h","o"," ","c","r","e","a","t","e","d">>),
           Lit(<<"q","u","e","m"," ","d","e","s","e","n","v","o","l","v","e","u">>),
           Lit(<<"w","h","o"," ","d","e","v","e","l","o","p","e","d">>)>>), Rep("space+"),
           Group(1, Rep("name+"))>>),
       \* (?:autor de|author of|creator of)\s+([a-zA-Z_\s]+)
       Cat(<<Alt(<<Lit(<<"a","u","t","o","r"," ","d","e">>),
           Lit(<<"a","u","t","h","o","r"," ","o","f">>),
           Lit(<<"c","r","e","a","t","o","r"," ","o","f">>)>>), Rep("space+"),
           Group(1, Rep("name+"))>>),
       \* ([a-zA-Z_\s]+)\s+(?:foi criado por|was created by|foi desenvolvido por)
       Cat(<<Group(1, Rep("name+")), Rep("space+"),
           Alt(<<Lit(<<"f","o","i"," ","c","r","i","a","d","o"," ","p","o","r">>),
           Lit(<<"w","a","s"," ","c","r","e","a","t","e","d"," ","b","y">>),
           Lit(<<"f","o","i"," ","d","e","s","e","n","v","o","l","v","i","d","o"," ","p","o","r">>)>>)>>) >>

how_related_patterns ==
    << \* (?:como|how)\s+([a-zA-Z_\s]+)\s+(?:esta' relacionado com|is related to|se relaciona com)\s+([a-zA-Z_\s]+)
       Cat(<<Alt(<<Lit(<<"c","o","m","o">>), Lit(<<"h","o","w">>)>>), Rep("space+"),
           Group(1, Rep("name+")), Rep("space+"),
           Alt(<<Lit(<<"e","s","t","a'"," ","r","e","l","a","c","i","o","n","a","d","o"," ","c","o","m">>),
           Lit(<<"i","s"," ","r","e","l","a","t","e","d"," ","t","o">>),
           Lit(<<"s","e"," ","r","e","l","a","c","i","o","n","a"," ","c","o","m">>)>>),
           Rep("space+"), Group(2, Rep("name+"))>>),
       \* (?:relac,a~o entre|relationship between)\s+([a-zA-Z_\s]+)\s+(?:e|and)\s+([a-zA-Z_\s]+)
       Cat(<<Alt(<<Lit(<<"r","e","l","a","c,","a~","o"," ","e","n","t","r","e">>),
           Lit(<<"r","e","l","a","t","i","o","n","s","h","i","p"," ","b","e","t","w","e","e","n">>)>>),
           Rep("space+"), Group(1, Rep("name+")), Rep("space+"), Alt(<<Lit(<<"e">>),
           Lit(<<"a","n","d">>)>>), Rep("space+"), Group(2, Rep("name+"))>>) >>

list_by_type_patterns ==
    << \* (?:liste|list|quais sa~o|what are).*?(algoritmos?|algorithms?|conceitos?|concepts?|me'tricas?|metrics?)
       Cat(<<Alt(<<Lit(<<"l","i","s","t","e">>), Lit(<<"l","i","s","t">>),
           Lit(<<"q","u","a","i","s"," ","s","a~","o">>),
           Lit(<<"w","h","a","t"," ","a","r","e">>)>>), Rep("any*?"), EntityTypeWord>>),
       \* (?:todos os|all|all the)\s+(algoritmos?|algorithms?|conceitos?|concepts?|me'tricas?|metrics?)
       Cat(<<Alt(<<Lit(<<"t","o","d","o","s"," ","o","s">>), Lit(<<"a","l","l">>),
           Lit(<<"a","l","l"," ","t","h","e">>)>>), Rep("space+"), EntityTypeWord>>),
       \* (?:show|mostre).*?(algoritmos?|algorithms?|conceitos?|concepts?|me'tricas?|metrics?)
       Cat(<<Alt(<<Lit(<<"s","h","o","w">>), Lit(<<"m","o","s","t","r","e">>)>>), Rep("any*?"),
           EntityTypeWord>>) >>

find_similar_patterns ==
    << \* (?:encontre|find|busque).*(?:similar|parecido|semelhante).*(?:a|to|with)\s+([a-zA-Z_\s]+)
       Cat(<<Alt(<<Lit(<<"e","n","c","o","n","t","r","e">>), Lit(<<"f","i","n","d">>),
           Lit(<<"b","u","s","q","u","e">>)>>), Rep("any*"),
           Alt(<<Lit(<<"s","i","m","i","l","a","r">>),
           Lit(<<"p","a","r","e","c","i","d","o">>),
           Lit(<<"s","e","m","e","l","h","a","n","t","e">>)>>), Rep("any*"), Alt(<<Lit(<<"a">>),
           Lit(<<"t","o">>), Lit(<<"w","i","t","h">>)>>), Rep("space+"), Group(1, Rep("name+"))>>),
       \* (?:conceitos?|algorithms?).*(?:similar|parecido|semelhante).*(?:a|to)\s+([a-zA-Z_\s]+)
       Cat(<<Alt(<<Cat(<<Lit(<<"c","o","n","c","e","i","t","o">>), Opt("s")>>),
           Cat(<<Lit(<<"a","l","g","o","r","i","t","h","m">>), Opt("s")>>)>>), Rep("any*"),
           Alt(<<Lit(<<"s","i","m","i","l","a","r">>),
           Lit(<<"p","a","r","e","c","i","d","o">>),
           Lit(<<"s","e","m","e","l","h","a","n","t","e">>)>>), Rep("any*"), Alt(<<Lit(<<"a">>),
           Lit(<<"t","o">>)>>), Rep("space+"), Group(1, Rep("name+"))>>) >>

type_mapping ==
    << << <<"a","l","g","o","r","i","t","m","o","s">>, <<"a","l","g","o","r","i","t","h","m">> >>,
       << <<"a","l","g","o","r","i","t","m","o">>, <<"a","l","g","o","r","i","t","h","m">> >>,
       << <<"a","l","g","o","r","i","t","h","m","s">>, <<"a","l","g","o","r","i","t","h","m">> >>,
       << <<"a","l","g","o","r","i","t","h","m">>, <<"a","l","g","o","r","i","t","h","m">> >>,
       << <<"c","o","n","c","e","i","t","o","s">>, <<"c","o","n","c","e","p","t">> >>,
       << <<"c","o","n","c","e","i","t","o">>, <<"c","o","n","c","e","p","t">> >>,
       << <<"c","o","n","c","e","p","t","s">>, <<"c","o","n","c","e","p","t">> >>,
       << <<"c","o","n","c","e","p","t">>, <<"c","o","n","c","e","p","t">> >>,
       << <<"m","e'","t","r","i","c","a","s">>, <<"m","e","t","r","i","c">> >>,
       << <<"m","e'","t","r","i","c","a">>, <<"m","e","t","r","i","c">> >>,
       << <<"m","e","t","r","i","c","s">>, <<"m","e","t","r","i","c">> >>,
       << <<"m","e","t","r","i","c">>, <<"m","e","t","r","i","c">> >> >>

\* QueryType of query_templates
QueryType ==
    [WHAT_IS |-> "what_is", WHAT_USES |-> "what_uses",
     WHAT_IS_TYPE_OF |-> "what_is_type_of", WHO_CREATED |-> "who_created",
     HOW_RELATED |-> "how_related", LIST_BY_TYPE |-> "list_by_type",
     FIND_SIMILAR |-> "find_similar"]

-----------------------------------------------------------------------------
(* QueryProcessor: process_question *)

GroupAsWritten(groups) == << Strip(groups[1]) >>
_extract_single_entity(groups) ==
    << _normalize_entity_name(Strip(groups[1])) >>

_extract_two_entities(groups) ==
    << _normalize_entity_name(Strip(groups[1])),
       _normalize_entity_name(Strip(groups[2])) >>

\* type_mapping.get(entity_type.lower(), entity_type)
_extract_type_entity(groups) ==
    LET entity_type == Strip(groups[1])
        known == {k \in 1..Len(type_mapping) : type_mapping[k][1] = Lower(entity_type)}
    IN IF known = {} THEN <<entity_type>>
       ELSE << type_mapping[CHOOSE k \in known : TRUE][2] >>

intent_checks ==
    << [patterns |-> what_is_patterns, query_type |-> QueryType.WHAT_IS,
        entity_extractor |-> "_extract_single_entity"],
       [patterns |-> what_uses_patterns, query_type |-> QueryType.WHAT_USES,
        entity_extractor |-> "_extract_single_entity"],
       [patterns |-> type_of_patterns, query_type |-> QueryType.WHAT_IS_TYPE_OF,
        entity_extractor |-> "_extract_single_entity"],
       [patterns |-> who_created_patterns, query_type |-> QueryType.WHO_CREATED,
        entity_extractor |-> "_extract_single_entity"],
       [patterns |-> how_related_patterns, query_type |-> QueryType.HOW_RELATED,
        entity_extractor |-> "_extract_two_entities"],
       [patterns |-> list_by_type_patterns, query_type |-> QueryType.LIST_BY_TYPE,
        entity_extractor |-> "_extract_type_entity"],
       [patterns |-> find_similar_patterns, query_type |-> QueryType.FIND_SIMILAR,
        entity_extractor |-> "_extract_single_entity"] >>

entity_extractor(name, groups) ==
    CASE name = "_extract_single_entity" -> _extract_single_entity(groups)
      [] name = "_extract_two_entities" -> _extract_two_entities(groups)
      [] name = "_extract_type_entity" -> _extract_type_entity(groups)

NoIntent == [done |-> FALSE, raised |-> FALSE, query_type |-> "", entities |-> <<>>,
             confidence |-> "", raw_question |-> <<>>]

\* The two nested for loops of process_question from check c, pattern p on:
\* the QueryIntent of the first pattern that matches with a non-empty list of
\* entities, NoIntent when the loops end without one.
RECURSIVE FirstIntent(_, _, _)
FirstIntent(q, c, p) ==
    IF c > Len(intent_checks) THEN NoIntent
    ELSE IF p > Len(intent_checks[c].patterns) THEN FirstIntent(q, c + 1, 1)
    ELSE LET match == Search(intent_checks[c].patterns[p], q)
             entities == entity_extractor(intent_checks[c].entity_extractor, match.groups)
         IN IF match.found /\ entities # <<>>
            THEN [done |-> TRUE, raised |-> FALSE,
                  query_type |-> intent_checks[c].query_type,
                  entities |-> entities, confidence |-> "0.8", raw_question |-> q]
            ELSE FirstIntent(q, c, p + 1)

\* process_question(question); raised is the IndexError of
\* question.split()[-1] on a question without a token
process_question(text) ==
    LET q == Strip(Lower(text))
        found == FirstIntent(q, 1, 1)
        words == Split(q)
    IN IF found.done THEN found
       ELSE IF words = <<>>
       THEN [NoIntent EXCEPT !.done = TRUE, !.raised = TRUE, !.raw_question = q]
       ELSE [done |-> TRUE, raised |-> FALSE, query_type |-> QueryType.WHAT_IS,
             entities |-> << words[Len(words)] >>, confidence |-> "0.3",
             raw_question |-> q]

-----------------------------------------------------------------------------
(* QueryProcessor: generate_sparql_query, and the executor on its queries *)

\* QUERY_TYPE_MAPPING: the template function of each query type
QUERY_TYPE_MAPPING ==
    [what_is |-> "what_is_entity", what_uses |-> "what_uses_entity",
     what_is_type_of |-> "what_is_type_of", who_created |-> "who_created_entity",
     how_related |-> "how_entities_related", list_by_type |-> "list_entities_by_type",
     find_similar |-> "find_similar_entities"]

\* QUERY_TYPE_MAPPING.get(query_type): "" stands for None
get_template_for_query_type(query_type) ==
    IF query_type \in DOMAIN QUERY_TYPE_MAPPING THEN QUERY_TYPE_MAPPING[query_type]
    ELSE ""

\* the default of the limit parameter of list_entities_by_type
default_list_limit == 20

\* limit=15 of the LIST_BY_TYPE branch
list_limit == 15

\* the default of the limit parameter of find_similar_entities
find_similar_limit == 10

\* A SPARQL string is the text of its template with the arguments put in
\* their places: the template, the arguments in the order of the parameters,
\* and the number of the LIMIT clause (has_limit FALSE: no LIMIT clause).
NoSparql == [generated |-> FALSE, raised |-> FALSE, template |-> "", args |-> <<>>,
             has_limit |-> FALSE, limit |-> 0]

Query(template, args) ==
    [NoSparql EXCEPT !.generated = TRUE, !.template = template, !.args = args]

Limited(q, limit) == [q EXCEPT !.has_limit = TRUE, !.limit = limit]

\* the exception leaves generate_sparql_query: no string is returned
RaisedSparql == [NoSparql EXCEPT !.generated = TRUE, !.raised = TRUE]

\* QueryTemplates.how_entities_related(entity1, entity2)
RelatedSwapped(entity1, entity2) == Query("how_entities_related", <<entity2, entity1>>)
how_entities_related(entity1, entity2) ==
    Query("how_entities_related", <<entity1, entity2>>)

\* generate_sparql_query(intent); intent.entities[0] of an empty list raises
\* IndexError, which the except clause re-raises
generate_sparql_query(it) ==
    LET template_func == get_template_for_query_type(it.query_type)
    IN IF template_func = "" THEN RaisedSparql
       ELSE IF it.query_type = QueryType.HOW_RELATED
       THEN IF Len(it.entities) >= 2
            THEN how_entities_related(it.entities[1], it.entities[2])
            ELSE RaisedSparql
       ELSE IF it.entities = <<>> THEN RaisedSparql
       ELSE IF it.query_type = QueryType.LIST_BY_TYPE
       THEN Limited(Query(template_func, <<it.entities[1]>>), list_limit)
       ELSE IF it.query_type = QueryType.FIND_SIMILAR
       THEN Limited(Query(template_func, <<it.entities[1]>>), find_similar_limit)
       ELSE Query(template_func, <<it.entities[1]>>)

\* the characters of the labels of the model in code point order
CodePoints ==
    <<" ", "-", ".">> \o DigitSeq \o UpperChars \o <<"_">> \o LowerChars

CodePoint(c) == CHOOSE i \in 1..Len(CodePoints) : CodePoints[i] = c

\* a < b for two strings
RECURSIVE StrLess(_, _)
StrLess(a, b) ==
    IF b = <<>> THEN FALSE
    ELSE IF a = <<>> THEN TRUE
    ELSE IF Head(a) = Head(b) THEN StrLess(Tail(a), Tail(b))
    ELSE CodePoint(Head(a)) < CodePoint(Head(b))

\* ORDER BY ?label on a set of solutions
RECURSIVE OrderByLabel(_)
OrderByLabel(S) ==
    IF S = {} THEN <<>>
    ELSE LET x == CHOOSE y \in S : \A z \in S : ~StrLess(z.label.v, y.label.v)
         IN <<x>> \o OrderByLabel(S \ {x})

\* graph.query of the list_entities_by_type template and the row conversion
\* of execute_sparql:
\*   SELECT ?entity ?label WHERE { ?entity rdf:type ml:<entity_type> .
\*                                 ?entity rdfs:label ?label . }
\*   ORDER BY ?label LIMIT <limit>
\* one row per solution kept by LIMIT
list_entities_by_type(g, q) ==
    LET class == ML(q.args[1])
        typed == {t[1] : t \in {u \in g : u[2] = rdf.type /\ u[3] = class}}
        solutions == UNION { { [entity |-> e, label |-> u[3]] :
                                 u \in {v \in g : v[1] = e /\ v[2] = rdfs.label} }
                             : e \in typed }
        ordered == OrderByLabel(solutions)
    IN IF q.has_limit /\ q.limit < Len(ordered) THEN SubSeq(ordered, 1, q.limit)
       ELSE ordered

NoResults == [executed |-> FALSE, raised |-> FALSE, rows |-> <<>>]

\* execute_sparql(query) with self.graph.query(query) behaving as `outcome`:
\* "rows", "empty": the query runs and gives rows or none; "raises": the
\* string fails to parse or to evaluate, and the except clause logs and
\* re-raises
execute_sparql(outcome) ==
    IF outcome = "raises" THEN [executed |-> TRUE, raised |-> TRUE, rows |-> <<>>]
    ELSE [executed |-> TRUE, raised |-> FALSE,
          rows |-> IF outcome = "rows" THEN <<"row">> ELSE <<>>]

\* _format_empty_response, _format_error_response and the FormattedResponse
\* of a formatter, whose confidence is the formatter's own
FormattedResponse(kind, rows, query_type) ==
    [done |-> TRUE, kind |-> kind, query_type |-> query_type,
     raw_results |-> IF kind = "empty" THEN <<>> ELSE rows,
     confidence |-> IF kind \in {"empty", "format_error"} THEN "0.0" ELSE "formatter"]

-----------------------------------------------------------------------------
(* InteractiveDemo.process_question *)

\* done: the call has ended; raised: by an exception that left the method;
\* kind: "answer" for the joined response_parts, "error" for the string of
\* the except clause; main: what main_answer was; stage: where it failed
NoAnswer == [done |-> FALSE, raised |-> FALSE, kind |-> "", main |-> "", stage |-> ""]

\* the stages inside the try block of process_question
TryFromExecution == {"execute", "format"}
TryBody == {"intent", "sparql", "execute", "format"}

\* an exception raised at `stage`
Failed(stage) ==
    IF stage \in TryBody
    THEN [NoAnswer EXCEPT !.done = TRUE, !.kind = "error", !.stage = stage]
    ELSE [NoAnswer EXCEPT !.done = TRUE, !.raised = TRUE, !.stage = stage]

\* format_response: the empty response for no rows, the error response when
\* the formatter of the query type raises, its FormattedResponse otherwise
format_response(oc) ==
    IF oc.execute = "empty" THEN "empty"
    ELSE IF oc.format = "formatter_raises" THEN "format_error"
    ELSE "structured"

\* the answer of process_question(question, show_debug, use_natural_language)
\* once the processor gave the intent `it` and the query `sq`, with the
\* collaborators behaving as oc:
\*   oc.execute   "rows", "empty": what execute_sparql returns; "raises"
\*   oc.format    "ok"; "formatter_raises": inside the try of format_response;
\*                "raises": an exception leaves format_response
\*   oc.enhance   "ok": enhance_response returns a natural answer; "raises"
demo_process_question(it, sq, use_natural_language, oc) ==
    IF it.raised THEN Failed("intent")
    ELSE IF sq.raised THEN Failed("sparql")
    ELSE IF oc.execute = "raises" THEN Failed("execute")
    ELSE IF oc.format = "raises" THEN Failed("format")
    ELSE [NoAnswer EXCEPT
            !.done = TRUE, !.kind = "answer",
            !.stage = IF use_natural_language /\ oc.enhance = "raises"
                      THEN "enhance" ELSE "",
            !.main = IF use_natural_language /\ oc.enhance = "ok"
                     THEN "natural" ELSE format_response(oc)]

-----------------------------------------------------------------------------
(* Inputs of the query processor *)

\* the pieces questions are put together from, with single spaces between
QuestionWords ==
    { <<"w","h","a","t"," ","i","s">>, <<"S","v","m">>, <<"e'">>, <<"4","2">>,
      <<"Q","u","e","m"," ","c","r","i","o","u">>,
      <<"a","l","g","o","r","i","t","m","o","s">>, <<"l","i","s","t">> }

\* the words the entity of a 'Quem criou X?' question is spelled with: plain
\* words, a stop-word and trigger words of other query types
NameWords ==
    { <<"S","u","p","p","o","r","t">>, <<"V","e","c","t","o","r">>, <<"M","a","c","h","i","n","e">>,
      <<"o","f">>, <<"d","e","f","i","n","e">>, <<"e","x","t","e","n","d","s">> }

QuemCriou == <<"Q","u","e","m"," ","c","r","i","o","u"," ">>

\* the endings of the questions about the type of an entity
PortugueseTypeOfEndings ==
    { <<" ","e'"," ","u","m"," ","t","i","p","o"," ","d","e"," ","q","u","e","?">>,
      <<" ","e'"," ","u","m","a"," ","s","u","b","c","l","a","s","s","e"," ","d","e"," ","q","u","e">> }

EnglishTypeOfEnding ==
    <<" ","i","s"," ","a"," ","t","y","p","e"," ","o","f"," ","w","h","a","t","?">>

TypeOfEndings == PortugueseTypeOfEndings \cup {EnglishTypeOfEnding}

\* 'X e' um tipo de que?' and its variants for an entity X, one of them a stop-word
TypeOfQuestions ==
    { x \o e : x \in {Names.Svm, <<"S","v","m"," ","N","N">>, <<"t","h","e">>},
               e \in TypeOfEndings }

\* questions whose captured text holds stop-words only
StopWordQuestions ==
    { <<"w","h","a","t"," ","i","s"," ","t","h","e">>,
      <<"e","x","p","l","a","i","n"," ","t","h","e"," ","o","f">>,
      <<"h","o","w"," ","t","h","e"," ","i","s"," ","r","e","l","a","t","e","d"," ","t","o"," ","o","f">> }

\* the pieces joined, questions of whitespace only, one with whitespace
\* around its token, the 'Quem criou X?' questions, the type questions and
\* the questions of stop-words
Questions ==
    {Join(ws, " ") : ws \in SeqsUpTo(QuestionWords, MaxWords)}
    \cup { <<" "," ">>, <<" ","\t","\n">>, <<" ","4","2","\t">> }
    \cup {QuemCriou \o n \o <<"?">> : n \in
             NameWords \cup {a \o <<" ">> \o b : a, b \in NameWords}
                       \cup {Names.SupportVectorMachine}}
    \cup TypeOfQuestions \cup StopWordQuestions

-----------------------------------------------------------------------------
(* Inputs of the builder and of the token derivations *)

\* the characters entity names are spelled with: letters of both cases, a
\* digit, whitespace, hyphen, underscore and punctuation
NameChars == {"a", "M", "1", " ", "-", "_", "."}

EntityNames ==
    SeqsUpTo(NameChars, MaxNameLen) \cup {Names.SupportVectorMachine, Names.BagOfWords}

\* NormalizedEntity objects as normalize_entities builds them
EntityPool ==
    { [canonical_name |-> Names.SupportVectorMachine, entity_type |-> EntityTypes.Algorithm,
       aliases |-> << <<"S","V","M">> >>, frequency |-> 3, confidence |-> 1,
       source_chunks |-> <<1, 2>>, original_labels |-> <<"ORG">>],
      [canonical_name |-> Names.Svm, entity_type |-> EntityTypes.Algorithm,
       aliases |-> << Names.Svm, <<"s","v","m">> >>, frequency |-> 12, confidence |-> 1,
       source_chunks |-> <<1, 2, 3, 4, 5, 6>>, original_labels |-> <<"ORG", "ML_PATTERN">>],
      [canonical_name |-> <<"s","v","m">>, entity_type |-> EntityTypes.Concept,
       aliases |-> <<>>, frequency |-> 0, confidence |-> 1,
       source_chunks |-> <<>>, original_labels |-> <<>>],
      [canonical_name |-> Names.Algorithm, entity_type |-> EntityTypes.Other,
       aliases |-> <<>>, frequency |-> 1, confidence |-> 1,
       source_chunks |-> <<7>>, original_labels |-> <<"ML_PATTERN">>] }

\* the dicts of at most n items with distinct keys, over the pool
Mappings(n) ==
    {m \in SeqsUpTo(EntityPool, n) :
        \A i, j \in 1..Len(m) : i # j => m[i].canonical_name # m[j].canonical_name}

is_a == <<"i","s","_","a">>

\* Relation objects as extract_relations_from_chunk builds them
RelationPool ==
    { [subject |-> sb, predicate |-> pr, object |-> ob, chunk_id |-> 1,
       confidence |-> 1, context |-> ExtractedFromText] :
        sb \in {Names.SupportVectorMachine, Names.Svm}, pr \in {is_a, <<"u","s","e","s">>},
        ob \in {Names.Algorithm} }

-----------------------------------------------------------------------------
(* Inputs of generate_sparql_query and of the executor *)

MaxIntentEntities == 2
MaxListed == 16

\* entity tokens of a QueryIntent
IntentTokens == { <<"a","l","g","o","r","i","t","h","m">>, <<"s","v","m">> }

\* QueryIntent objects of every query type with 0..MaxIntentEntities entities
GivenIntents ==
    { [done |-> TRUE, raised |-> FALSE, query_type |-> QueryType[t], entities |-> es,
       confidence |-> "0.8", raw_question |-> <<>>] :
        t \in DOMAIN QueryType, es \in SeqsUpTo(IntentTokens, MaxIntentEntities) }

\* n entities of type ALGORITHM named Aa, Ab, ... followed by one CONCEPT
ListedEntities(n) ==
    [k \in 1..(n + 1) |->
        [canonical_name |-> IF k <= n THEN <<"A", LowerChars[k]>> ELSE <<"C","a">>,
         entity_type |-> IF k <= n THEN EntityTypes.Algorithm ELSE EntityTypes.Concept,
         aliases |-> <<>>, frequency |-> 2, confidence |-> 1,
         source_chunks |-> <<1>>, original_labels |-> <<"ORG">>]]

\* the KGExecutor has loaded the file of a builder that added the schema and
\* the entities of ListedEntities(n)
Loaded(n) ==
    LET kg == add_entities([graph |-> add_ontology_schema({}), stats |-> KGStatsInit],
                           ListedEntities(n))
    IN /\ graph = kg.graph
       /\ kg_stats = kg.stats
       /\ kg_pc = "saved"
       /\ kg_entities = ListedEntities(n)
       /\ kg_relations = <<>>
       /\ query = NoQuery
       /\ schema_calls = 1
    /\ build = NoBuild

NoDemoCall ==
    [use_natural_language |-> TRUE,
     oc |-> [execute |-> "rows", format |-> "ok", enhance |-> "ok"]]

\* how the executor, the formatter and the response enhancer may behave
DemoOutcomes ==
    [execute : {"rows", "empty", "raises"},
     format : {"ok", "formatter_raises", "raises"},
     enhance : {"ok", "raises"}]

\* questions of the interactive session: one without a token, and questions
\* of the WHAT_IS fallback and of the patterns
DemoQuestions ==
    { <<>>, <<" ","\t">>, Names.Svm,
      <<"w","h","a","t"," ","i","s"," ","S","v","m">>,
      QuemCriou \o Names.Svm \o <<"?">>,
      <<"l","i","s","t"," ","a","l","g","o","r","i","t","m","o","s">>,
      Names.Svm \o <<" ","e","x","t","e","n","d","s">>,
      <<"h","o","w"," ","S","v","m"," ","i","s"," ","r","e","l","a","t","e","d"," ",
        "t","o"," ","N","N">> }

\* NormalizedEntity objects of data/normalized_entities.pkl: NN and DBN found
\* in the same chunks, DBN with a type or with the null the LLM gave for it
PipelinePool ==
    { [canonical_name |-> Names.NN, entity_type |-> EntityTypes.Algorithm,
       aliases |-> <<>>, frequency |-> 2, confidence |-> 1,
       source_chunks |-> <<1, 2>>, original_labels |-> <<"ORG">>],
      [canonical_name |-> Names.DBN, entity_type |-> EntityTypes.Concept,
       aliases |-> <<>>, frequency |-> 1, confidence |-> 1,
       source_chunks |-> <<1>>, original_labels |-> <<"ORG">>],
      [canonical_name |-> Names.DBN, entity_type |-> JsonNull,
       aliases |-> <<>>, frequency |-> 2, confidence |-> 1,
       source_chunks |-> <<1, 2>>, original_labels |-> <<"ML_PATTERN">>] }

-----------------------------------------------------------------------------
(* The state of a component that a specification does not exercise *)

RelIdle ==
    /\ rel_stats = RelStatsInit
    /\ chunks_entities = <<>>
    /\ max_chunks = 0
    /\ rel_pc = "idle"
    /\ rel_i = 1
    /\ all_relations = <<>>
    /\ rel_log = <<>>
    /\ call_in = NoCall
    /\ call_out = NoResult

NormIdle ==
    /\ norm_entities = <<>>
    /\ hash_seed = 1
    /\ norm_pc = "idle"
    /\ entity_batches = <<>>
    /\ norm_i = 1
    /\ all_normalized = <<>>
    /\ norm_stats = NormStatsInit
    /\ norm_log = <<>>

KGIdle ==
    /\ graph = {}
    /\ kg_stats = KGStatsInit
    /\ kg_pc = "new"
    /\ kg_entities = <<>>
    /\ kg_relations = <<>>
    /\ query = NoQuery
    /\ schema_calls = 0
    /\ build = NoBuild

QPIdle ==
    /\ tok_name = <<>>
    /\ tok_builder = <<>>
    /\ tok_query = <<>>
    /\ tok_done = {}
    /\ question = <<>>
    /\ intent = NoIntent
    /\ sparql = NoSparql
    /\ results = NoResults
    /\ answer = NoAnswer
    /\ demo_call = NoDemoCall

relOthers == <<normVars, kgVars, qpVars>>
normOthers == <<relVars, kgVars, qpVars>>
kgOthers == <<relVars, normVars, qpVars>>
qpOthers == <<relVars, normVars, kgVars>>

-----------------------------------------------------------------------------
(* Specification SpecFilter: one direct call of extract_relations_from_chunk *)

InitFilter ==
    /\ NormIdle /\ KGIdle /\ QPIdle
    \* a new extractor, or one that has extracted one relation from one chunk
    /\ rel_stats \in {RelStatsInit,
                      [chunks_processed |-> 1, relations_extracted |-> 1,
                       llm_calls |-> 1, failed_extractions |-> 0]}
    /\ chunks_entities = <<>>
    /\ max_chunks = 0
    /\ rel_pc = "idle"
    /\ rel_i = 1
    /\ all_relations = <<>>
    /\ rel_log = <<>>
    /\ call_in \in { [chunk_id |-> 1, entities |-> el, outcome |-> oc] :
                        el \in EntityLists,
                        oc \in Responses(Candidates)
                                \cup {[kind |-> "malformed", relations |-> <<>>]} }
    /\ call_out = NoResult

CallExtract ==
    /\ ~call_out.returned
    /\ LET r == extract_relations_from_chunk(rel_stats, call_in.chunk_id,
                                             call_in.entities, call_in.outcome)
       IN /\ rel_stats' = r.stats
          /\ call_out' = [returned |-> TRUE, relations |-> r.relations,
                          llm |-> r.llm, before |-> rel_stats]
    /\ UNCHANGED <<chunks_entities, max_chunks, rel_pc, rel_i, all_relations,
                   rel_log, call_in>>
    /\ UNCHANGED relOthers

NextFilter == CallExtract

SpecFilter == InitFilter /\ [][NextFilter]_vars

-----------------------------------------------------------------------------
(* Specification SpecExtract: extract_relations_from_chunks over a dict *)

\* chunk_ids = list(chunks_entities.keys()); if max_chunks: chunk_ids[:max_chunks]
\* (the key of the k-th entry of the dict is k)
chunk_ids ==
    IF max_chunks # 0 /\ max_chunks < Len(chunks_entities)
    THEN [k \in 1..max_chunks |-> k]
    ELSE [k \in 1..Len(chunks_entities) |-> k]

\* the for statement of extract_relations_from_chunks: where the loop goes
\* after the chunk at position i, whose extraction failed or not
NextChunk(i, failed) == i + 1

InitExtract ==
    /\ NormIdle /\ KGIdle /\ QPIdle
    /\ rel_stats = RelStatsInit
    /\ chunks_entities \in SeqsUpTo(ChunkEntries, MaxChunks)
    /\ max_chunks \in 0..MaxChunks
    /\ rel_pc = "loop"
    /\ rel_i = 1
    /\ all_relations = <<>>
    /\ rel_log = <<>>
    /\ call_in = NoCall
    /\ call_out = NoResult

\* if not chunk or len(entities) < 2: continue
SkipChunk ==
    /\ rel_pc = "loop"
    /\ rel_i <= Len(chunk_ids)
    /\ LET entry == chunks_entities[chunk_ids[rel_i]]
       IN ~entry.present \/ Len(entry.entities) < 2
    /\ rel_i' = rel_i + 1
    /\ UNCHANGED <<rel_stats, chunks_entities, max_chunks, rel_pc, all_relations,
                   rel_log, call_in, call_out>>
    /\ UNCHANGED relOthers

\* chunk_relations = self.extract_relations_from_chunk(chunk, entities)
\* all_relations.extend(chunk_relations)
ProcessChunk ==
    /\ rel_pc = "loop"
    /\ rel_i <= Len(chunk_ids)
    /\ LET entry == chunks_entities[chunk_ids[rel_i]]
       IN /\ entry.present /\ Len(entry.entities) >= 2
          /\ \E oc \in Responses(LoopCandidates) :
               LET r == extract_relations_from_chunk(rel_stats, chunk_ids[rel_i],
                                                     entry.entities, oc)
               IN /\ rel_stats' = r.stats
                  /\ all_relations' = all_relations \o r.relations
                  /\ rel_log' = Append(rel_log,
                        [chunk_id |-> chunk_ids[rel_i], kind |-> oc.kind,
                         returned |-> r.relations,
                         failed_before |-> rel_stats.failed_extractions,
                         failed_after |-> r.stats.failed_extractions])
                  /\ rel_i' = NextChunk(rel_i, oc.kind # "parsed")
    /\ UNCHANGED <<chunks_entities, max_chunks, rel_pc, call_in, call_out>>
    /\ UNCHANGED relOthers

\* return all_relations
FinishExtraction ==
    /\ rel_pc = "loop"
    /\ rel_i > Len(chunk_ids)
    /\ rel_pc' = "done"
    /\ UNCHANGED <<rel_stats, chunks_entities, max_chunks, rel_i, all_relations,
                   rel_log, call_in, call_out>>
    /\ UNCHANGED relOthers

NextExtract == SkipChunk \/ ProcessChunk \/ FinishExtraction

SpecExtract == InitExtract /\ [][NextExtract]_vars

-----------------------------------------------------------------------------
(* Specification SpecNorm: normalize_entities on a list of candidates *)

InitNorm ==
    /\ RelIdle /\ KGIdle /\ QPIdle
    /\ \E n \in 0..MaxCands : norm_entities = [k \in 1..n |-> Corpus(k)]
    /\ hash_seed \in {1, 2}
    /\ norm_pc = "start"
    /\ entity_batches = <<>>
    /\ norm_i = 1
    /\ all_normalized = <<>>
    /\ norm_stats = NormStatsInit
    /\ norm_log = <<>>

\* entity_batches = ...; self.stats['entities_input'] = len(entities); all_normalized = {}
StartNormalize ==
    /\ norm_pc = "start"
    /\ norm_pc' = "loop"
    /\ entity_batches' = _group_similar_entities(norm_entities)
    /\ norm_stats' = [norm_stats EXCEPT !.entities_input = Len(norm_entities)]
    /\ all_normalized' = <<>>
    /\ UNCHANGED <<norm_entities, hash_seed, norm_i, norm_log>>
    /\ UNCHANGED normOthers

\* one iteration of `for i, batch in enumerate(entity_batches)`
NormalizeBatchStep ==
    /\ norm_pc = "loop"
    /\ norm_i <= Len(entity_batches)
    /\ \E oc \in NormResponses :
         LET failed == oc.kind # "parsed"
             called == oc.kind # "chat_raises"
             built  == IF failed THEN <<>>
                       ELSE NormalizeBatch(oc.entities, norm_entities, hash_seed)
         IN /\ all_normalized' = InsertAll(all_normalized, built)
            /\ norm_stats' = [norm_stats EXCEPT
                  !.llm_calls = IF called THEN @ + 1 ELSE @,
                  !.batches_processed = IF failed THEN @ ELSE @ + 1]
            /\ norm_log' = Append(norm_log,
                  [batch |-> norm_i, kind |-> oc.kind, entities |-> oc.entities,
                   built |-> built, size |-> Len(entity_batches[norm_i])])
            /\ norm_i' = AfterBatch(norm_i, failed, Len(entity_batches))
    /\ UNCHANGED <<norm_entities, hash_seed, norm_pc, entity_batches>>
    /\ UNCHANGED normOthers

\* self.stats['entities_output'] = len(all_normalized); return all_normalized
FinishNormalize ==
    /\ norm_pc = "loop"
    /\ norm_i > Len(entity_batches)
    /\ norm_pc' = "done"
    /\ norm_stats' = [norm_stats EXCEPT !.entities_output = Len(all_normalized)]
    /\ UNCHANGED <<norm_entities, hash_seed, entity_batches, norm_i, all_normalized,
                   norm_log>>
    /\ UNCHANGED normOthers

NextNorm == StartNormalize \/ NormalizeBatchStep \/ FinishNormalize

SpecNorm == InitNorm /\ [][NextNorm]_vars

-----------------------------------------------------------------------------
(* Specification SpecToken: one entity name through both token derivations *)

InitToken ==
    /\ RelIdle /\ NormIdle /\ KGIdle
    /\ tok_name \in EntityNames
    /\ tok_builder = <<>>
    /\ tok_query = <<>>
    /\ tok_done = {}
    /\ question = <<>>
    /\ intent = NoIntent
    /\ sparql = NoSparql
    /\ results = NoResults
    /\ answer = NoAnswer
    /\ demo_call = NoDemoCall

\* KnowledgeGraphBuilder._create_entity_uri(tok_name)
CreateEntityUri ==
    /\ "builder" \notin tok_done
    /\ tok_builder' = _create_entity_uri(tok_name).v
    /\ tok_done' = tok_done \cup {"builder"}
    /\ UNCHANGED <<tok_name, tok_query, question, intent, sparql, results, answer, demo_call>>
    /\ UNCHANGED qpOthers

\* QueryProcessor._normalize_entity_name(tok_name)
NormalizeEntityName ==
    /\ "query" \notin tok_done
    /\ tok_query' = _normalize_entity_name(tok_name)
    /\ tok_done' = tok_done \cup {"query"}
    /\ UNCHANGED <<tok_name, tok_builder, question, intent, sparql, results, answer, demo_call>>
    /\ UNCHANGED qpOthers

NextToken == CreateEntityUri \/ NormalizeEntityName

SpecToken == InitToken /\ [][NextToken]_vars

-----------------------------------------------------------------------------
(* Specification SpecKG: a builder from construction to the saved graph, *)
(* and WHAT_IS_TYPE_OF queries on the graph the executor loads           *)

InitKG ==
    /\ RelIdle /\ NormIdle /\ QPIdle
    /\ KGIdle

\* add_ontology_schema()
AddOntologySchema ==
    /\ kg_pc # "saved"
    /\ graph' = add_ontology_schema(graph)
    /\ schema_calls' = IF schema_calls < 2 THEN schema_calls + 1 ELSE schema_calls
    /\ UNCHANGED <<kg_stats, kg_pc, kg_entities, kg_relations, query, build>>
    /\ UNCHANGED kgOthers

\* add_entities(normalized_entities)
AddEntities ==
    /\ kg_pc = "new"
    /\ \E mapping \in Mappings(MaxEntities) :
          LET kg == add_entities([graph |-> graph, stats |-> kg_stats], mapping)
          IN /\ graph' = kg.graph
             /\ kg_stats' = kg.stats
             /\ kg_entities' = mapping
    /\ kg_pc' = "entities"
    /\ UNCHANGED <<kg_relations, query, schema_calls, build>>
    /\ UNCHANGED kgOthers

\* add_relations(relations)
AddRelations ==
    /\ kg_pc \in {"new", "entities"}
    /\ \E rels \in SeqsUpTo(RelationPool, MaxKGRels) :
          LET kg == add_relations([graph |-> graph, stats |-> kg_stats], rels)
          IN /\ graph' = kg.graph
             /\ kg_stats' = kg.stats
             /\ kg_relations' = rels
    /\ kg_pc' = "relations"
    /\ UNCHANGED <<kg_entities, query, schema_calls, build>>
    /\ UNCHANGED kgOthers

\* add_metadata()
AddMetadata ==
    /\ kg_pc = "relations"
    \* one builder reads the clock once: the reading is tick 1
    /\ graph' = add_metadata([graph |-> graph, stats |-> kg_stats], build.clock + 1).graph
    /\ kg_pc' = "metadata"
    /\ UNCHANGED <<kg_stats, kg_entities, kg_relations, query, schema_calls, build>>
    /\ UNCHANGED kgOthers

\* save_graph(): the file the KGExecutor loads holds the triples of the graph
SaveGraph ==
    /\ kg_pc # "saved"
    /\ kg_pc' = "saved"
    /\ UNCHANGED <<graph, kg_stats, kg_entities, kg_relations, query, schema_calls, build>>
    /\ UNCHANGED kgOthers

\* execute_sparql(QueryTemplates.what_is_type_of(token)) on the loaded graph,
\* then _format_type_of_response on its rows
QueryTypeOf ==
    /\ kg_pc = "saved"
    /\ \E name \in {e.canonical_name : e \in EntityPool} :
          LET rows == what_is_type_of(graph, EntityToken(name))
          IN query' = [asked |-> TRUE, token |-> EntityToken(name),
                       rows |-> rows, parents |-> unique_parents(rows)]
    /\ UNCHANGED <<graph, kg_stats, kg_pc, kg_entities, kg_relations, schema_calls, build>>
    /\ UNCHANGED kgOthers

NextKG ==
    \/ AddOntologySchema
    \/ AddEntities
    \/ AddRelations
    \/ AddMetadata
    \/ SaveGraph
    \/ QueryTypeOf

SpecKG == InitKG /\ [][NextKG]_vars

-----------------------------------------------------------------------------
(* Specification SpecQuery: process_question on one question *)

InitQuery ==
    /\ RelIdle /\ NormIdle /\ KGIdle
    /\ tok_name = <<>>
    /\ tok_builder = <<>>
    /\ tok_query = <<>>
    /\ tok_done = {}
    /\ question \in Questions
    /\ intent = NoIntent
    /\ sparql = NoSparql
    /\ results = NoResults
    /\ answer = NoAnswer
    /\ demo_call = NoDemoCall

\* process_question(question)
ProcessQuestion ==
    /\ ~intent.done
    /\ intent' = process_question(question)
    /\ UNCHANGED <<tok_name, tok_builder, tok_query, tok_done, question, sparql, results, answer, demo_call>>
    /\ UNCHANGED qpOthers

NextQuery == ProcessQuestion

SpecQuery == InitQuery /\ [][NextQuery]_vars

-----------------------------------------------------------------------------
(* Specification SpecSparql: generate_sparql_query on a QueryIntent, and   *)
(* execute_sparql of a LIST_BY_TYPE query on the loaded graph              *)

InitSparql ==
    /\ RelIdle /\ NormIdle
    /\ \E n \in 0..MaxListed : Loaded(n)
    /\ tok_name = <<>>
    /\ tok_builder = <<>>
    /\ tok_query = <<>>
    /\ tok_done = {}
    /\ question = <<>>
    /\ intent \in GivenIntents
    /\ sparql = NoSparql
    /\ results = NoResults
    /\ answer = NoAnswer
    /\ demo_call = NoDemoCall

\* generate_sparql_query(intent)
GenerateSparql ==
    /\ ~sparql.generated
    /\ sparql' = generate_sparql_query(intent)
    /\ UNCHANGED <<tok_name, tok_builder, tok_query, tok_done, question, intent,
                   results, answer, demo_call>>
    /\ UNCHANGED qpOthers

\* execute_sparql(query) for the query of a LIST_BY_TYPE intent
ExecuteSparql ==
    /\ sparql.generated /\ ~sparql.raised
    /\ sparql.template = QUERY_TYPE_MAPPING.list_by_type
    /\ ~results.executed
    /\ results' = [executed |-> TRUE, raised |-> FALSE,
                   rows |-> list_entities_by_type(graph, sparql)]
    /\ UNCHANGED <<tok_name, tok_builder, tok_query, tok_done, question, intent,
                   sparql, answer, demo_call>>
    /\ UNCHANGED qpOthers

NextSparql == GenerateSparql \/ ExecuteSparql

SpecSparql == InitSparql /\ [][NextSparql]_vars

-----------------------------------------------------------------------------
(* Specification SpecExecute: the query of an intent through execute_sparql *)
(* and format_response                                                      *)

InitExecute ==
    /\ RelIdle /\ NormIdle /\ KGIdle
    /\ tok_name = <<>>
    /\ tok_builder = <<>>
    /\ tok_query = <<>>
    /\ tok_done = {}
    /\ question = <<>>
    /\ intent \in GivenIntents
    /\ sparql = NoSparql
    /\ results = NoResults
    /\ answer = NoAnswer
    /\ demo_call \in [use_natural_language : {FALSE},
                      oc : {o \in DemoOutcomes : o.format # "raises" /\ o.enhance = "ok"}]

\* execute_sparql(sparql_query)
ExecuteQuery ==
    /\ sparql.generated /\ ~sparql.raised
    /\ ~results.executed
    /\ results' = execute_sparql(demo_call.oc.execute)
    /\ UNCHANGED <<tok_name, tok_builder, tok_query, tok_done, question, intent,
                   sparql, answer, demo_call>>
    /\ UNCHANGED qpOthers

\* format_response(results, intent.query_type, question, intent.entities) on
\* the list execute_sparql returned
FormatResults ==
    /\ results.executed /\ ~results.raised
    /\ ~answer.done
    /\ answer' = FormattedResponse(format_response(demo_call.oc), results.rows,
                                   intent.query_type)
    /\ UNCHANGED <<tok_name, tok_builder, tok_query, tok_done, question, intent,
                   sparql, results, demo_call>>
    /\ UNCHANGED qpOthers

NextExecute == GenerateSparql \/ ExecuteQuery \/ FormatResults

SpecExecute == InitExecute /\ [][NextExecute]_vars

-----------------------------------------------------------------------------
(* Specification SpecAuthors: a graph built from entities and relations of *)
(* the schema, and WHO_CREATED queries on the graph the executor loads     *)

Vapnik == <<"V","a","p","n","i","k">>

\* the keys of relation_schema under 'Relacoes de autoria': the last three
AuthorshipPredicates ==
    {relation_schema[Len(relation_schema) - k] : k \in {0, 1, 2}}

AuthorEntities ==
    << [canonical_name |-> Names.Svm, entity_type |-> EntityTypes.Algorithm,
        aliases |-> <<>>, frequency |-> 2, confidence |-> 1,
        source_chunks |-> <<1>>, original_labels |-> <<"ORG">>],
       [canonical_name |-> Vapnik, entity_type |-> <<"P","E","R","S","O","N">>,
        aliases |-> <<>>, frequency |-> 1, confidence |-> 1,
        source_chunks |-> <<1>>, original_labels |-> <<"ORG">>] >>

\* Relation objects with a predicate of authorship, or 'uses'
AuthorRelations ==
    { [subject |-> sb, predicate |-> pr, object |-> ob, chunk_id |-> 1,
       confidence |-> 1, context |-> ExtractedFromText] :
        sb \in {Names.Svm, Names.SupportVectorMachine},
        pr \in AuthorshipPredicates \cup {<<"u","s","e","s">>},
        ob \in {Vapnik, Names.NN} }

InitAuthors ==
    /\ RelIdle /\ NormIdle /\ QPIdle
    /\ graph = {}
    /\ kg_stats = KGStatsInit
    /\ kg_pc = "new"
    /\ kg_entities \in {SubSeq(AuthorEntities, i, j) : i \in 1..3, j \in 0..2}
    /\ kg_relations \in {<<>>} \cup {<<r>> : r \in AuthorRelations}
    /\ query = NoQuery
    /\ schema_calls = 0
    /\ build = NoBuild

\* build_knowledge_graph() on the pickled entities and relations, and the
\* KGExecutor loading the file
BuildAuthors ==
    /\ kg_pc = "new"
    /\ LET kg == BuiltGraph(kg_entities, kg_relations, build.clock + 1)
       IN /\ graph' = kg.graph
          /\ kg_stats' = kg.stats
    /\ kg_pc' = "saved"
    /\ schema_calls' = 1
    /\ UNCHANGED <<kg_entities, kg_relations, query, build>>
    /\ UNCHANGED kgOthers

\* execute_sparql(QueryTemplates.who_created_entity(token)) on the loaded graph
QueryWhoCreated ==
    /\ kg_pc = "saved"
    /\ \E name \in {Names.Svm, Names.SupportVectorMachine} :
          query' = [asked |-> TRUE, token |-> EntityToken(name),
                    rows |-> who_created_entity(graph, EntityToken(name)),
                    parents |-> {}]
    /\ UNCHANGED <<graph, kg_stats, kg_pc, kg_entities, kg_relations, schema_calls, build>>
    /\ UNCHANGED kgOthers

NextAuthors == BuildAuthors \/ QueryWhoCreated

SpecAuthors == InitAuthors /\ [][NextAuthors]_vars

-----------------------------------------------------------------------------
(* Specification SpecDemo: one question of the interactive session *)

InitDemo ==
    /\ RelIdle /\ NormIdle /\ KGIdle
    /\ tok_name = <<>>
    /\ tok_builder = <<>>
    /\ tok_query = <<>>
    /\ tok_done = {}
    /\ question \in DemoQuestions
    /\ intent = NoIntent
    /\ sparql = NoSparql
    /\ results = NoResults
    /\ answer = NoAnswer
    /\ demo_call \in [use_natural_language : BOOLEAN, oc : DemoOutcomes]

\* InteractiveDemo.process_question(question, use_natural_language=...)
DemoProcessQuestion ==
    /\ ~answer.done
    /\ intent' = process_question(question)
    /\ sparql' = IF intent'.raised THEN NoSparql ELSE generate_sparql_query(intent')
    /\ answer' = demo_process_question(intent', sparql', demo_call.use_natural_language,
                                        demo_call.oc)
    /\ UNCHANGED <<tok_name, tok_builder, tok_query, tok_done, question, results,
                   demo_call>>
    /\ UNCHANGED qpOthers

NextDemo == DemoProcessQuestion

SpecDemo == InitDemo /\ [][NextDemo]_vars

-----------------------------------------------------------------------------
(* Specification SpecBuild: main() of build_knowledge_graph.py, one call of *)
(* build_knowledge_graph per output format on the same pickled inputs       *)

InitBuild ==
    /\ RelIdle /\ NormIdle /\ QPIdle
    /\ graph = {}
    /\ kg_stats = KGStatsInit
    /\ kg_pc = "new"
    \* data/normalized_entities.pkl and data/extracted_relations.pkl
    /\ kg_entities \in {<<>>} \cup {<<e>> : e \in EntityPool}
    /\ kg_relations \in {<<>>} \cup {<<r>> : r \in RelationPool}
    /\ query = NoQuery
    /\ schema_calls = 0
    /\ build = NoBuild

\* build_knowledge_graph(output_format) for the next format; `saved` FALSE is
\* an exception of the build (of serialize, or of writing the report), which
\* ends main() for 'turtle' and is printed and passed over for the others
BuildKnowledgeGraph ==
    /\ ~build.ended
    /\ build.next <= Len(output_formats)
    /\ \E now \in Readings(build.clock), saved \in BOOLEAN :
          LET fmt == output_formats[build.next]
              kg == BuiltGraph(kg_entities, kg_relations, now)
          IN /\ graph' = kg.graph
             /\ kg_stats' = kg.stats
             /\ kg_pc' = IF saved THEN "saved" ELSE "metadata"
             /\ build' = [files |-> IF saved
                                    THEN [f \in DOMAIN build.files \cup {fmt} |->
                                             IF f = fmt THEN kg.graph ELSE build.files[f]]
                                    ELSE build.files,
                          next |-> build.next + 1,
                          clock |-> now,
                          ended |-> ~saved /\ build.next = 1]
    /\ schema_calls' = 1
    /\ UNCHANGED <<kg_entities, kg_relations, query>>
    /\ UNCHANGED kgOthers

NextBuild == BuildKnowledgeGraph

SpecBuild == InitBuild /\ [][NextBuild]_vars

-----------------------------------------------------------------------------
(* Specification SpecPipeline: extract_relations() on the normalized        *)
(* entities, then build_knowledge_graph() on the entities and the relations *)

InitPipeline ==
    /\ RelIdle /\ NormIdle /\ QPIdle
    /\ graph = {}
    /\ kg_stats = KGStatsInit
    /\ kg_pc = "new"
    /\ kg_entities \in {m \in SeqsUpTo(PipelinePool, MaxEntities) :
                          \A i, k \in 1..Len(m) :
                             i # k => m[i].canonical_name # m[k].canonical_name}
    /\ kg_relations = <<>>
    /\ query = NoQuery
    /\ schema_calls = 0
    /\ build = NoBuild

\* chunks_entities = map_entities_to_chunks(normalized_entities), and the
\* start of extract_relations_from_chunks(chunks_entities, None), whose
\* load_chunks() has or has not the chunk of each id
MapEntitiesToChunks ==
    /\ rel_pc = "idle"
    /\ LET m == map_entities_to_chunks(kg_entities)
       IN \E loaded \in [1..Len(m) -> BOOLEAN] :
             chunks_entities' = [k \in 1..Len(m) |-> [m[k] EXCEPT !.present = loaded[k]]]
    /\ rel_pc' = "loop"
    /\ UNCHANGED <<rel_stats, max_chunks, rel_i, all_relations, rel_log, call_in, call_out>>
    /\ UNCHANGED relOthers

\* build_knowledge_graph() on the pickled entities and relations
BuildGraph ==
    /\ rel_pc = "done"
    /\ kg_pc = "new"
    /\ LET kg == BuiltGraph(kg_entities, all_relations, build.clock + 1)
       IN /\ graph' = kg.graph
          /\ kg_stats' = kg.stats
    /\ kg_relations' = all_relations
    /\ kg_pc' = "saved"
    /\ schema_calls' = 1
    /\ UNCHANGED <<kg_entities, query, build>>
    /\ UNCHANGED kgOthers

NextPipeline ==
    \/ MapEntitiesToChunks
    \/ SkipChunk
    \/ ProcessChunk
    \/ FinishExtraction
    \/ BuildGraph

SpecPipeline == InitPipeline /\ [][NextPipeline]_vars

-----------------------------------------------------------------------------
(* Specification SpecCalls: add_entities and add_relations called on one   *)
(* builder, in any order, with well-formed and malformed items             *)

MaxAccepted == 3    \* Relation objects given to add_relations over all calls

\* NormalizedEntity objects given to add_entities: two well-formed, one whose
\* type is not a string, one whose aliases are None
CallEntityPool ==
    { [canonical_name |-> Names.Svm, entity_type |-> EntityTypes.Algorithm,
       aliases |-> << Names.SVM >>, frequency |-> 3, confidence |-> 1,
       source_chunks |-> <<1, 2>>, original_labels |-> <<"ORG">>],
      [canonical_name |-> <<"R","e","l"," ","0">>, entity_type |-> EntityTypes.Concept,
       aliases |-> <<>>, frequency |-> 1, confidence |-> 1,
       source_chunks |-> <<3, 4>>, original_labels |-> <<"ORG">>],
      [canonical_name |-> Names.NN, entity_type |-> JsonNull,
       aliases |-> <<>>, frequency |-> 2, confidence |-> 1,
       source_chunks |-> <<1, 2>>, original_labels |-> <<"ORG">>],
      [canonical_name |-> Names.DBN, entity_type |-> EntityTypes.Algorithm,
       aliases |-> NullList, frequency |-> 2, confidence |-> 1,
       source_chunks |-> <<1, 2>>, original_labels |-> <<"ML_PATTERN">>] }

\* Relation objects given to add_relations: two well-formed, one whose
\* object is not a string
CallRelationPool ==
    { [subject |-> Names.Svm, predicate |-> <<"u","s","e","s">>, object |-> Names.NN,
       chunk_id |-> 1, confidence |-> 1, context |-> ExtractedFromText],
      [subject |-> Names.NN, predicate |-> is_a, object |-> Names.Svm,
       chunk_id |-> 2, confidence |-> 1, context |-> <<"c","x">>],
      [subject |-> Names.Svm, predicate |-> is_a, object |-> JsonNull,
       chunk_id |-> 1, confidence |-> 1, context |-> ExtractedFromText] }

InitCalls ==
    /\ RelIdle /\ NormIdle /\ QPIdle
    /\ KGIdle

\* add_entities(normalized_entities) with a dict of one or two items whose
\* keys were not given before; kg_entities lists every item given so far
CallAddEntities ==
    /\ Len(kg_entities) < MaxEntities
    /\ \E mapping \in SeqsUpTo(CallEntityPool, MaxEntities - Len(kg_entities)) :
          /\ mapping # <<>>
          /\ LET given == kg_entities \o mapping
             IN \A i, j \in 1..Len(given) :
                   i # j => given[i].canonical_name # given[j].canonical_name
          /\ LET kg == add_entities([graph |-> graph, stats |-> kg_stats], mapping)
             IN /\ graph' = kg.graph
                /\ kg_stats' = kg.stats
          /\ kg_entities' = kg_entities \o mapping
    /\ kg_pc' = "called"
    /\ UNCHANGED <<kg_relations, query, schema_calls, build>>
    /\ UNCHANGED kgOthers

\* add_relations(relations) with a list of one or two Relation objects;
\* kg_relations lists every Relation given so far
CallAddRelations ==
    /\ Len(kg_relations) < MaxAccepted
    /\ \E rels \in {<<r>> : r \in CallRelationPool}
                    \cup {<<r1, r2>> : r1, r2 \in CallRelationPool} :
          /\ Len(kg_relations) + Len(rels) <= MaxAccepted
          /\ LET kg == add_relations([graph |-> graph, stats |-> kg_stats], rels)
             IN /\ graph' = kg.graph
                /\ kg_stats' = kg.stats
          /\ kg_relations' = kg_relations \o rels
    /\ kg_pc' = "called"
    /\ UNCHANGED <<kg_entities, query, schema_calls, build>>
    /\ UNCHANGED kgOthers

NextCalls == CallAddEntities \/ CallAddRelations

SpecCalls == InitCalls /\ [][NextCalls]_vars

-----------------------------------------------------------------------------
(* Claims about the relation extractor *)

\* s and e match by case-insensitive containment in either direction
SubstringMatch(s, e) ==
    \/ IsSubstring(Lower(s), Lower(e))
    \/ IsSubstring(Lower(e), Lower(s))

\* candidate c of a response passes the validation the claim describes
Acceptable(c, entities) ==
    /\ c.dict
    /\ Strip(c.subject) # <<>> /\ Strip(c.predicate) # <<>> /\ Strip(c.object) # <<>>
    /\ \E i \in 1..Len(entities) : SubstringMatch(Strip(c.subject), entities[i])
    /\ \E i \in 1..Len(entities) : SubstringMatch(Strip(c.object), entities[i])
    /\ \E n \in SchemaNames : Lower(n) = Lower(Strip(c.predicate))

AcceptableCount(cs, entities) ==
    Cardinality({k \in 1..Len(cs) : Acceptable(cs[k], entities)})

\* C1: every relation returned by extract_relations_from_chunk has a predicate
\* of the closed schema and a subject and an object that each substring-match
\* (case-insensitively, either direction) some element of entities_in_chunk;
\* no relation is returned for a candidate that fails one of these checks.
C1_ReturnedRelationsValid ==
    call_out.returned =>
        /\ \A k \in 1..Len(call_out.relations) :
              LET r == call_out.relations[k]
              IN /\ r.predicate \in SchemaNames
                 /\ \E i \in 1..Len(call_in.entities) :
                        SubstringMatch(r.subject, call_in.entities[i])
                 /\ \E i \in 1..Len(call_in.entities) :
                        SubstringMatch(r.object, call_in.entities[i])
        /\ Len(call_out.relations)
              <= AcceptableCount(call_in.outcome.relations, call_in.entities)

\* a call that accepted one candidate and dropped none is reached together
\* with the rewrite of the LLM's spelling
C1_Witness ==
    /\ call_out.returned
    /\ Len(call_out.relations) = 1
    /\ call_out.relations[1].subject # call_in.outcome.relations[1].subject
    /\ call_out.relations[1].predicate # call_in.outcome.relations[1].predicate

FailureKinds == {"chat_raises", "bad_envelope", "not_iterable"}

\* the chunks of chunk_ids for which the loop must call the extractor
DueChunks ==
    LET lim == IF max_chunks # 0 /\ max_chunks < Len(chunks_entities)
               THEN max_chunks ELSE Len(chunks_entities)
    IN {k \in 1..lim : chunks_entities[k].present /\ Len(chunks_entities[k].entities) >= 2}

\* C3: a chunk whose LLM call fails adds exactly 1 to failed_extractions and
\* returns the empty list; the loop still calls the extractor for every other
\* chunk that is due, in order, and the final list is the concatenation of
\* what the calls returned.
C3_PerChunkIsolation ==
    /\ \A k \in 1..Len(rel_log) :
          rel_log[k].kind \in FailureKinds =>
             /\ rel_log[k].returned = <<>>
             /\ rel_log[k].failed_after = rel_log[k].failed_before + 1
    /\ rel_pc = "done" =>
          /\ {rel_log[k].chunk_id : k \in 1..Len(rel_log)} = DueChunks
          /\ Len(rel_log) = Cardinality(DueChunks)
          /\ \A k \in 1..(Len(rel_log) - 1) : rel_log[k].chunk_id < rel_log[k+1].chunk_id
          /\ all_relations = Concat([k \in 1..Len(rel_log) |-> rel_log[k].returned])

\* a finished run in which a chunk failed and a later chunk yielded a relation
C3_Witness ==
    /\ rel_pc = "done"
    /\ \E k \in 1..Len(rel_log) : \E m \in (k+1)..Len(rel_log) :
          /\ rel_log[k].kind = "chat_raises"
          /\ rel_log[m].returned # <<>>
    /\ all_relations # <<>>


-----------------------------------------------------------------------------
(* Claims about the entity normalizer *)

\* the stripped texts of the candidates, in order
RECURSIVE StrippedTexts(_)
StrippedTexts(entities) ==
    IF entities = <<>> THEN <<>>
    ELSE <<Strip(Head(entities).text)>> \o StrippedTexts(Tail(entities))

\* the distinct stripped texts that occur at least twice or are longer than 3
FilteredTexts ==
    LET stripped == StrippedTexts(norm_entities)
    IN {tx \in {stripped[k] : k \in 1..Len(stripped)} :
          \/ Cardinality({k \in 1..Len(stripped) : stripped[k] = tx}) >= 2
          \/ Len(tx) > 3}

\* a parsed item that is an entity: a dict of the expected shape whose
\* canonical_name is not blank
WellFormed(raw) == raw.dict /\ Strip(raw.canonical_name) # <<>>

\* C2: whatever the outcome of each batch, normalize_entities runs to its
\* return with exactly one LLM attempt per batch, in batch order,
\* ceil(filtered_count / 20) attempts in total; a batch whose call or
\* response fails contributes no entity, and every entity parsed from any
\* other batch is a key of the returned mapping.
C2_EveryBatchAttempted ==
    norm_pc = "done" =>
        /\ Len(norm_log) = (Cardinality(FilteredTexts) + 19) \div 20
        /\ \A k \in 1..Len(norm_log) : norm_log[k].batch = k
        /\ \A i \in 1..Len(all_normalized) :
              \E k \in 1..Len(norm_log) :
                 /\ norm_log[k].kind = "parsed"
                 /\ \E j \in 1..Len(norm_log[k].entities) :
                       /\ WellFormed(norm_log[k].entities[j])
                       /\ Strip(norm_log[k].entities[j].canonical_name)
                             = all_normalized[i].canonical_name
        /\ \A k \in 1..Len(norm_log) :
              norm_log[k].kind = "parsed" =>
                 \A j \in 1..Len(norm_log[k].entities) :
                    WellFormed(norm_log[k].entities[j]) =>
                       \E i \in 1..Len(all_normalized) :
                          all_normalized[i].canonical_name
                             = Strip(norm_log[k].entities[j].canonical_name)

\* a finished run of two batches whose first LLM call raised and whose second
\* batch put an entity into the mapping
C2_Witness ==
    /\ norm_pc = "done"
    /\ Len(norm_log) = 2
    /\ norm_log[1].kind = "chat_raises"
    /\ norm_log[2].kind = "parsed"
    /\ all_normalized # <<>>

\* every NormalizedEntity the loop has built, in processing order
Emissions == Concat([k \in 1..Len(norm_log) |-> norm_log[k].built])

\* C4: the mapping holds exactly one entry per emitted canonical_name, and
\* that entry is the NormalizedEntity built from the last emission of the
\* name in processing order, with nothing of an earlier emission in it.
C4_LastWriteWins ==
    /\ \A i, j \in 1..Len(all_normalized) :
          i # j => all_normalized[i].canonical_name # all_normalized[j].canonical_name
    /\ \A m \in 1..Len(Emissions) :
          \E i \in 1..Len(all_normalized) :
             all_normalized[i].canonical_name = Emissions[m].canonical_name
    /\ \A i \in 1..Len(all_normalized) :
          \E m \in 1..Len(Emissions) :
             /\ Emissions[m] = all_normalized[i]
             /\ \A n \in (m+1)..Len(Emissions) :
                   Emissions[n].canonical_name # all_normalized[i].canonical_name

\* a finished run in which two batches emitted the same canonical_name with
\* different aliases
C4_Witness ==
    /\ norm_pc = "done"
    /\ Len(norm_log) = 2
    /\ \E a \in 1..Len(norm_log[1].built) : \E b \in 1..Len(norm_log[2].built) :
          /\ norm_log[1].built[a].canonical_name = norm_log[2].built[b].canonical_name
          /\ norm_log[1].built[a].aliases # norm_log[2].built[b].aliases

\* C5: every NormalizedEntity of the mapping has frequency >= 1.
C5_FrequencyAtLeastOne ==
    \A i \in 1..Len(all_normalized) : all_normalized[i].frequency >= 1

\* C6: no NormalizedEntity of the mapping lists its own canonical_name among
\* its aliases.
C6_AliasesExcludeCanonical ==
    \A i \in 1..Len(all_normalized) :
       \A a \in 1..Len(all_normalized[i].aliases) :
          all_normalized[i].aliases[a] # all_normalized[i].canonical_name

-----------------------------------------------------------------------------
(* Claims about the entity tokens *)

\* C7: for every entity name, _normalize_entity_name gives the local name of
\* the URI that _create_entity_uri gives.
C7_TokensAlign ==
    tok_done = {"builder", "query"} => tok_query = tok_builder

-----------------------------------------------------------------------------
(* Claims about the graph builder and the queries on its graph *)

\* the URIs of the entity namespace that are the subject of a triple
EntitySubjects == {t[1] : t \in {u \in graph : u[1].ns = "entity"}}

Values(subject, property) ==
    {t[3] : t \in {u \in graph : u[1] = subject /\ u[2] = property}}

DistinctURIs(mapping) ==
    \A i, j \in 1..Len(mapping) :
       i # j => EntityToken(mapping[i].canonical_name)
                   # EntityToken(mapping[j].canonical_name)

WellShaped(uri) ==
    /\ Cardinality(Values(uri, rdf.type)) = 1
    /\ Cardinality(Values(uri, rdfs.label)) = 1
    /\ Cardinality(Values(uri, ml.canonicalName)) = 1
    /\ Cardinality(Values(uri, ml.frequency)) = 1
    /\ Cardinality(Values(uri, ml.confidence)) = 1
    /\ Cardinality(Values(uri, ml.sourceChunk)) <= source_chunk_cap

C10_ParentLabelAsWritten ==
    (/\ query.asked
     /\ Len(kg_relations) = 1
     /\ kg_relations[1].predicate = is_a
     /\ HasKey(kg_entities, kg_relations[1].subject)
     /\ query.token = EntityToken(kg_relations[1].subject))
    => /\ Cardinality(query.rows) = 1
       /\ query.parents = {kg_relations[1].object}

-----------------------------------------------------------------------------
(* Claims about process_question *)

\* the question as process_question reads it
Lowered == Strip(Lower(question))

\* C9: process_question never raises, and for a question that matches none
\* of the patterns (the empty and the whitespace-only question among them)
\* it returns WHAT_IS with confidence 0.3 and one entity, non-empty, the last
\* whitespace-separated token of the question.
C9_FallbackNeverRaises ==
    intent.done =>
        /\ ~intent.raised
        /\ ~FirstIntent(Lowered, 1, 1).done =>
              /\ intent.query_type = QueryType.WHAT_IS
              /\ intent.confidence = "0.3"
              /\ Len(intent.entities) = 1
              /\ intent.entities[1] # <<>>
              /\ Split(Lowered) # <<>>
              /\ intent.entities[1] = Split(Lowered)[Len(Split(Lowered))]

\* the X of a question 'Quem criou X?', as its list of words
WhoEntity ==
    IF /\ Len(question) > Len(QuemCriou)
       /\ SubSeq(question, 1, Len(QuemCriou)) = QuemCriou
       /\ question[Len(question)] = "?"
    THEN Split(SubSeq(question, Len(QuemCriou) + 1, Len(question) - 1))
    ELSE <<>>

\* one of the patterns of the query types tried before WHO_CREATED matches
HigherPriorityThanWho(q) ==
    \E c \in 1..3 : \E p \in 1..Len(intent_checks[c].patterns) :
       Search(intent_checks[c].patterns[p], q).found

\* C11: for 'Quem criou X?' with X one or more words of letters, none a
\* stop-word, and no trigger phrase of a query type tried earlier in the
\* question, process_question returns WHO_CREATED with confidence 0.8 and the
\* single entity X lowercased, its words joined by underscores.
C11_QuemCriou ==
    (/\ intent.done
     /\ WhoEntity # <<>>
     /\ \A k \in 1..Len(WhoEntity) :
           /\ Lower(WhoEntity[k]) \notin stop_words
           /\ \A j \in 1..Len(WhoEntity[k]) :
                 IsUpper(WhoEntity[k][j]) \/ IsLowerChar(WhoEntity[k][j])
     /\ ~HigherPriorityThanWho(Lowered))
    => /\ ~intent.raised
       /\ intent.query_type = QueryType.WHO_CREATED
       /\ intent.confidence = "0.8"
       /\ intent.entities = << Join([k \in 1..Len(WhoEntity) |-> Lower(WhoEntity[k])], "_") >>

\* 'Quem criou Support Vector Machine?' has been processed
C11_Witness ==
    /\ intent.done
    /\ WhoEntity = << <<"S","u","p","p","o","r","t">>, <<"V","e","c","t","o","r">>, <<"M","a","c","h","i","n","e">> >>
    /\ intent.query_type = QueryType.WHO_CREATED

\* C12: a call of add_ontology_schema on a builder whose schema was added
\* before leaves the graph with exactly the triples it had, whatever was
\* added to the graph in between.
C12_SchemaIdempotent ==
    [][(AddOntologySchema /\ schema_calls >= 1) => graph' = graph]_vars

\* the schema has been added a second time to a graph that holds entities
C12_Witness ==
    /\ schema_calls = 2
    /\ kg_stats.entities_added > 0
    /\ SchemaTriples \subseteq graph

\* C13: a call of extract_relations_from_chunk with fewer than two entities
\* returns the empty list, makes no LLM call and leaves chunks_processed,
\* relations_extracted, llm_calls and failed_extractions as they were.
C13_TooFewEntitiesNoEffect ==
    (call_out.returned /\ Len(call_in.entities) < 2)
    => /\ call_out.relations = <<>>
       /\ ~call_out.llm
       /\ rel_stats = call_out.before

\* the call was made with one entity and an LLM that would have answered
\* with a relation
C13_Witness ==
    /\ call_out.returned
    /\ call_out.before.llm_calls > 0
    /\ Len(call_in.entities) = 1
    /\ call_in.outcome.kind = "parsed"
    /\ Len(call_in.outcome.relations) > 0

\* C14: generate_sparql_query on a HOW_RELATED intent raises, and returns no
\* SPARQL string, when the intent carries fewer than two entities; with two
\* entities it returns the how_entities_related template over the first and
\* the second entity, in that order.
C14_HowRelatedNeedsTwo ==
    (sparql.generated /\ intent.query_type = QueryType.HOW_RELATED)
    => /\ Len(intent.entities) < 2 =>
             /\ sparql.raised
             /\ sparql.template = "" /\ sparql.args = <<>>
       /\ Len(intent.entities) = 2 =>
             /\ ~sparql.raised
             /\ sparql.template = "how_entities_related"
             /\ sparql.args = <<intent.entities[1], intent.entities[2]>>
             /\ ~sparql.has_limit

\* the query was generated for a HOW_RELATED intent over (svm, algorithm)
C14_Witness ==
    /\ sparql.generated
    /\ intent.query_type = QueryType.HOW_RELATED
    /\ intent.entities = << <<"s","v","m">>, <<"a","l","g","o","r","i","t","h","m">> >>

\* generate_sparql_query raised on a HOW_RELATED intent with one entity
C14_WitnessRaised ==
    /\ sparql.generated /\ sparql.raised
    /\ intent.query_type = QueryType.HOW_RELATED
    /\ Len(intent.entities) = 1

\* the entities of type ALGORITHM the loaded graph holds
AlgorithmsLoaded ==
    {t[1] : t \in {u \in graph : u[2] = rdf.type /\ u[3] = EntityTypeClass(EntityTypes.Algorithm)}}

\* C15: the query generate_sparql_query returns for a LIST_BY_TYPE intent
\* carries LIMIT 15, and its execution returns at most 15 rows, however many
\* entities of the type the graph holds.
C15_ListLimit ==
    (sparql.generated /\ ~sparql.raised /\ intent.query_type = QueryType.LIST_BY_TYPE)
    => /\ sparql.has_limit /\ sparql.limit = 15
       /\ results.executed => Len(results.rows) <= 15

\* the list of algorithms was asked of a graph that holds more than 15 of
\* them, and 15 rows came back
C15_Witness ==
    /\ results.executed
    /\ intent.query_type = QueryType.LIST_BY_TYPE
    /\ Cardinality(AlgorithmsLoaded) > 15
    /\ Len(results.rows) = 15
    /\ \A k \in 1..15 : results.rows[k].entity \in AlgorithmsLoaded

\* C16: InteractiveDemo.process_question ends by returning a string for every
\* question, never by an exception, whether intent extraction, SPARQL
\* generation, execution, formatting or the LLM enhancement fails.
C16_DemoNeverRaises ==
    answer.done => /\ ~answer.raised
                   /\ answer.kind \in {"answer", "error"}
                   /\ answer.kind = "error" <=> answer.stage \in TryBody

\* the question without a token made process_question of the processor
\* raise, and the demo returned its error string
C16_Witness ==
    /\ answer.done
    /\ question = <<>>
    /\ answer.stage = "intent"
    /\ answer.kind = "error"

\* the enhancement failed and the structured answer was returned
C16_WitnessEnhance ==
    /\ answer.done
    /\ answer.stage = "enhance"
    /\ answer.kind = "answer" /\ answer.main = "structured"

\* C17: the files main() wrote in the output formats hold the same set of
\* triples, whatever the entities and relations of the input.
C17_SameTriplesInEveryFormat ==
    \A f1, f2 \in DOMAIN build.files : build.files[f1] = build.files[f2]

\* the triples two files differ in
FormatDifference(f1, f2) ==
    (build.files[f1] \ build.files[f2]) \cup (build.files[f2] \ build.files[f1])

\* whenever two files differ, they differ only in the dcterms:created and
\* nothing else
C17_DifferOnlyInCreated ==
    \A f1, f2 \in DOMAIN build.files :
       \A t \in FormatDifference(f1, f2) :
          t[1] = ml.MLKnowledgeGraph /\ t[2] = Term("dcterms", "created")

\* C18: a call of the extractor whose LLM response was malformed, or one of
\* whose candidate relations was rejected by validation, has added to
\* failed_extractions, the failure counter of the extractor's statistics.
C18_FailuresCounted ==
    (/\ call_out.returned /\ call_out.llm
     /\ \/ call_in.outcome.kind = "malformed"
        \/ /\ call_in.outcome.kind = "parsed"
           /\ Len(call_out.relations) < Len(call_in.outcome.relations))
    => rel_stats.failed_extractions > call_out.before.failed_extractions

\* the failures that raise inside extract_relations_from_chunk are counted
C18_RaisedFailuresCounted ==
    (call_out.returned /\ call_out.llm /\ call_in.outcome.kind \in FailureKinds)
    => rel_stats.failed_extractions = call_out.before.failed_extractions + 1

\* the node has an rdf:type and an rdfs:label in the graph
IsEntityInstance(node) ==
    /\ \E t \in graph : t[1] = node /\ t[2] = rdf.type
    /\ \E t \in graph : t[1] = node /\ t[2] = rdfs.label

\* the triples (subject, relation:<predicate>, object) of add_relations
DirectRelationTriples ==
    {t \in graph : t[2].k = "uri" /\ t[2].ns = "relation"}

\* C19: in the graph built from a normalized mapping E and the relations the
\* extractor returned for the entity lists map_entities_to_chunks draws from
\* the keys of E, the subject and the object of every direct relation triple
\* have an rdf:type and an rdfs:label.
C19_EdgeEndpointsAreEntities ==
    kg_pc = "saved" =>
        \A t \in DirectRelationTriples :
            IsEntityInstance(t[1]) /\ IsEntityInstance(t[3])

\* every relation of the graph was returned with a subject and an object
\* that are keys of E
C19_EndpointsAreKeys ==
    \A k \in 1..Len(all_relations) :
        /\ HasKey(kg_entities, all_relations[k].subject)
        /\ HasKey(kg_entities, all_relations[k].object)

\* with every entity of E of a string type the endpoints are entity instances
C19_HoldsWhenAllAdded ==
    (kg_pc = "saved" /\ kg_stats.entities_added = Len(kg_entities))
    => \A t \in DirectRelationTriples :
           IsEntityInstance(t[1]) /\ IsEntityInstance(t[3])

\* index of the first element of stripped that is tx
FirstOccurrence(stripped, tx) ==
    CHOOSE k \in 1..Len(stripped) :
        /\ stripped[k] = tx
        /\ \A j \in 1..(k - 1) : stripped[j] # tx

\* C20: the batches of _group_similar_entities hold, in order of first
\* occurrence and each exactly once, the distinct stripped texts that occur at
\* least twice or are longer than 3 characters; every batch but the last has
\* exactly 20 texts, the last has between 1 and 20, and there is no batch when
\* no text is kept. (Stated of entity_batches as _group_similar_entities
\* returned it, before the first batch is sent; no later step assigns it.)
C20_Batching ==
    (norm_pc = "loop" /\ norm_log = <<>>) =>
        LET stripped == StrippedTexts(norm_entities)
            kept  == Concat(entity_batches)
            first(i) == FirstOccurrence(stripped, kept[i])
            nb    == Len(entity_batches)
        IN /\ {kept[i] : i \in 1..Len(kept)} = FilteredTexts
           /\ \A i \in 1..(Len(kept) - 1) : first(i) < first(i + 1)
           /\ \A b \in 1..nb :
                 /\ b < nb => Len(entity_batches[b]) = 20
                 /\ Len(entity_batches[b]) \in 1..20
           /\ FilteredTexts = {} => entity_batches = <<>>

\* two batches, the first full, made from candidates of which one text is kept
\* for occurring twice and others are dropped
C20_Witness ==
    /\ norm_pc = "loop" /\ norm_log = <<>>
    /\ Len(entity_batches) = 2
    /\ Len(entity_batches[1]) = 20
    /\ Len(entity_batches[2]) \in 1..20
    /\ \E i \in 1..20 : entity_batches[1][i] = <<"s","v","m">>
    /\ \E k \in 1..Len(norm_entities) :
          Strip(norm_entities[k].text) \notin FilteredTexts

\* no candidate survives the filter and no batch is made
C20_WitnessNothingKept ==
    /\ norm_pc = "loop" /\ norm_log = <<>>
    /\ norm_entities # <<>>
    /\ FilteredTexts = {}
    /\ entity_batches = <<>>

-----------------------------------------------------------------------------
(* Claims about the frequency of a normalized entity *)

\* the candidates whose stripped text equals, case-insensitively, the
\* canonical name or an alias of e
MentioningCandidates(e) ==
    LET names == <<e.canonical_name>> \o e.aliases
    IN {k \in 1..Len(norm_entities) :
          \E i \in 1..Len(names) :
             Lower(Strip(norm_entities[k].text)) = Lower(names[i])}

\* the canonical name and the aliases of e are pairwise different, case aside
DistinctSpellings(e) ==
    LET names == <<e.canonical_name>> \o e.aliases
    IN \A i, j \in 1..Len(names) : i # j => Lower(names[i]) # Lower(names[j])

\* C21: the frequency of every normalized entity is the number of input
\* candidates whose stripped text case-insensitively equals its canonical name
\* or one of its aliases, each candidate counted once, and so is at most the
\* number of input candidates.
C21_FrequencyCountsCandidates ==
    \A i \in 1..Len(all_normalized) :
        /\ all_normalized[i].frequency
              = Cardinality(MentioningCandidates(all_normalized[i]))
        /\ all_normalized[i].frequency <= Len(norm_entities)

\* the frequency is that number when no spelling is listed twice
C21_HoldsForDistinctSpellings ==
    \A i \in 1..Len(all_normalized) :
        DistinctSpellings(all_normalized[i]) =>
            all_normalized[i].frequency
               = Cardinality(MentioningCandidates(all_normalized[i]))

-----------------------------------------------------------------------------
(* Claims about the rewriting of accepted relations *)

\* the candidates of the response that pass the validation, in order
AcceptedCandidates ==
    SelectSeq(call_in.outcome.relations, LAMBDA c : Acceptable(c, call_in.entities))

\* e is the first element of entities, in list order, that substring-matches s
IsFirstMatch(e, s, entities) ==
    \E i \in 1..Len(entities) :
        /\ entities[i] = e
        /\ SubstringMatch(s, entities[i])
        /\ \A j \in 1..(i - 1) : ~SubstringMatch(s, entities[j])

\* C22: every returned relation carries, for subject and for object, the first
\* element of entities_in_chunk in list order that substring-matches the
\* LLM's string in either direction, and for predicate the schema key that
\* equals the LLM's predicate case aside; so subject and object are elements
\* of entities_in_chunk and the predicate is a schema key.
C22_RewrittenToFirstMatch ==
    (call_out.returned /\ call_out.relations # <<>>) =>
        /\ Len(call_out.relations) = Len(AcceptedCandidates)
        /\ \A k \in 1..Len(call_out.relations) :
              LET r == call_out.relations[k]
                  c == AcceptedCandidates[k]
              IN /\ IsFirstMatch(r.subject, Strip(c.subject), call_in.entities)
                 /\ IsFirstMatch(r.object, Strip(c.object), call_in.entities)
                 /\ r.predicate \in SchemaNames
                 /\ Lower(r.predicate) = Lower(Strip(c.predicate))
                 /\ \E i \in 1..Len(call_in.entities) : call_in.entities[i] = r.subject
                 /\ \E i \in 1..Len(call_in.entities) : call_in.entities[i] = r.object

\* a relation whose subject the LLM spelled exactly as the second element of
\* entities_in_chunk is returned with the first element, which matched
\* earlier, and with the schema's spelling of the predicate
C22_Witness ==
    /\ call_out.returned
    /\ Len(call_out.relations) = 1
    /\ Len(call_in.entities) = 2
    /\ call_in.outcome.relations[1].subject = call_in.entities[2]
    /\ call_out.relations[1].subject = call_in.entities[1]
    /\ call_in.entities[1] # call_in.entities[2]
    /\ call_out.relations[1].predicate # call_in.outcome.relations[1].predicate

-----------------------------------------------------------------------------
(* Claims about the type questions and the entities of a matched pattern *)

\* the X of a question X \o ending for an ending of the set, <<>> otherwise
SubjectBefore(endings) ==
    IF \E e \in endings :
          /\ Len(question) > Len(e)
          /\ SubSeq(question, Len(question) - Len(e) + 1, Len(question)) = e
    THEN LET e == CHOOSE e \in endings :
                     /\ Len(question) > Len(e)
                     /\ SubSeq(question, Len(question) - Len(e) + 1, Len(question)) = e
         IN SubSeq(question, 1, Len(question) - Len(e))
    ELSE <<>>

\* x is one entity name of letters, not a stop-word
LettersName(x) ==
    /\ x # <<>>
    /\ \A j \in 1..Len(x) : IsUpper(x[j]) \/ IsLowerChar(x[j])
    /\ Lower(x) \notin stop_words

\* C23: a question 'X e' um tipo de que?' or 'X e' uma subclasse de ...', with
\* X an entity name of letters, is classified as WHAT_IS_TYPE_OF with the
\* single entity X normalized.
C23_TypeOfQuestionClassified ==
    (intent.done /\ LettersName(SubjectBefore(PortugueseTypeOfEndings)))
    => /\ ~intent.raised
       /\ intent.query_type = QueryType.WHAT_IS_TYPE_OF
       /\ intent.entities
             = << _normalize_entity_name(SubjectBefore(PortugueseTypeOfEndings)) >>

\* the English form 'X is a type of what?' is classified as WHAT_IS_TYPE_OF
C23_EnglishFormClassified ==
    (intent.done /\ LettersName(SubjectBefore({EnglishTypeOfEnding})))
    => /\ intent.query_type = QueryType.WHAT_IS_TYPE_OF
       /\ intent.entities
             = << _normalize_entity_name(SubjectBefore({EnglishTypeOfEnding})) >>

\* the Portuguese forms get the entity X, under the query type WHAT_IS
C23_CapturedByWhatIs ==
    (intent.done /\ LettersName(SubjectBefore(PortugueseTypeOfEndings)))
    => /\ intent.query_type = QueryType.WHAT_IS
       /\ intent.confidence = "0.8"
       /\ intent.entities
             = << _normalize_entity_name(SubjectBefore(PortugueseTypeOfEndings)) >>

\* C24: every QueryIntent returned through a pattern match (confidence 0.8)
\* has 1 or 2 entities, each a non-empty token.
C24_MatchedEntitiesNonEmpty ==
    (intent.done /\ ~intent.raised /\ intent.confidence = "0.8")
    => /\ Len(intent.entities) \in {1, 2}
       /\ \A k \in 1..Len(intent.entities) : intent.entities[k] # <<>>

\* a matched pattern gives 1 or 2 entities
C24_OneOrTwoEntities ==
    (intent.done /\ ~intent.raised /\ intent.confidence = "0.8")
    => Len(intent.entities) \in {1, 2}

-----------------------------------------------------------------------------
(* Claims about calls of add_entities and add_relations on one builder *)

\* the Relation objects given so far that add_relations accepted, in order
AcceptedRelations ==
    SelectSeq(kg_relations,
              LAMBDA r : JsonNull \notin {r.subject, r.object, r.predicate})

\* the URI named rel_<n>
RelationInstance(n) == ENTITY(<<"r","e","l","_">> \o ToDigits(n))

\* the nodes of the graph typed ml:Relation
RelationInstances ==
    {t[1] : t \in {u \in graph : u[2] = rdf.type /\ u[3] = ml.Relation}}

\* the URIs of the entities add_entities put into the graph
EntityInstances ==
    {t[1] : t \in {u \in graph : u[2] = ml.canonicalName}}

\* with k relations accepted: relations_added is k, the relation instances are
\* rel_0 .. rel_(k-1), none of them an entity instance, and rel_n carries
\* exactly the subject, predicate, object, context, sourceChunk and
\* confidence of the (n+1)-th accepted relation
RelationInstancesAsAccepted ==
    LET k == Len(AcceptedRelations)
    IN /\ kg_stats.relations_added = k
       /\ RelationInstances = {RelationInstance(n) : n \in 0..(k - 1)}
       /\ \A n \in 0..(k - 1) :
             LET node == RelationInstance(n)
                 r == AcceptedRelations[n + 1]
             IN /\ node \notin EntityInstances
                /\ Values(node, ml.subject) = {_create_entity_uri(r.subject)}
                /\ Values(node, ml.predicate) = {_create_relation_uri(r.predicate)}
                /\ Values(node, ml.object) = {_create_entity_uri(r.object)}
                /\ Values(node, ml.context) = {Literal(r.context)}
                /\ Cardinality(Values(node, ml.sourceChunk)) = 1
                /\ Cardinality(Values(node, ml.confidence)) = 1

\* C25: after any sequence of add_entities and add_relations calls in which k
\* relations were accepted, the graph holds exactly k relation instances,
\* rel_0 .. rel_(k-1) in order of acceptance, each distinct from every entity
\* instance and each with exactly one subject, predicate, object, context,
\* sourceChunk and confidence; relations_added is k.
C25_RelationInstances ==
    kg_pc = "called" => RelationInstancesAsAccepted

\* no entity given to add_entities has a URI of the form rel_<n>
NoEntityNamedRel ==
    \A i \in 1..Len(kg_entities) :
        \A n \in 0..MaxAccepted :
            _create_entity_uri(kg_entities[i].canonical_name) # RelationInstance(n)

\* the relation instances are as accepted when no entity's URI is rel_<n>
C25_HoldsWithoutRelEntity ==
    (kg_pc = "called" /\ NoEntityNamedRel) => RelationInstancesAsAccepted

\* adding the item raises inside the try of add_entities
EntityFails(e) == e.entity_type = JsonNull \/ e.aliases = NullList

\* the triples of the graph whose subject is the entity's URI
TriplesOf(e) == {t \in graph : t[1] = _create_entity_uri(e.canonical_name)}

\* the entity has its type, label, canonical name, frequency, confidence and
\* source chunks in the graph
AddedInFull(e) ==
    LET uri == _create_entity_uri(e.canonical_name)
    IN /\ Values(uri, rdf.type) = {EntityTypeClass(e.entity_type)}
       /\ Values(uri, rdfs.label) = {Literal(e.canonical_name)}
       /\ Values(uri, ml.canonicalName) = {Literal(e.canonical_name)}
       /\ Cardinality(Values(uri, ml.frequency)) = 1
       /\ Cardinality(Values(uri, ml.confidence)) = 1
       /\ Cardinality(Values(uri, ml.sourceChunk)) = Len(e.source_chunks)

\* C26: after add_entities calls (and no add_relations), the graph holds no
\* triple of an entity whose adding failed, entities_added counts the other
\* entities only, and each of those is in the graph in full.
C26_AddEntitiesAtomic ==
    (kg_pc = "called" /\ kg_relations = <<>>) =>
        /\ \A i \in 1..Len(kg_entities) :
              IF EntityFails(kg_entities[i])
              THEN TriplesOf(kg_entities[i]) = {}
              ELSE AddedInFull(kg_entities[i])
        /\ kg_stats.entities_added
              = Cardinality({i \in 1..Len(kg_entities) : ~EntityFails(kg_entities[i])})

\* failures are isolated and not counted, and an entity that fails before its
\* first triple (a type that is not a string) leaves nothing in the graph
C26_FailuresIsolated ==
    (kg_pc = "called" /\ kg_relations = <<>>) =>
        /\ \A i \in 1..Len(kg_entities) :
              /\ ~EntityFails(kg_entities[i]) => AddedInFull(kg_entities[i])
              /\ kg_entities[i].entity_type = JsonNull => TriplesOf(kg_entities[i]) = {}
        /\ kg_stats.entities_added
              = Cardinality({i \in 1..Len(kg_entities) : ~EntityFails(kg_entities[i])})

-----------------------------------------------------------------------------
(* Claims about the type of a normalized entity *)

\* the categories the normalization prompt offers
PromptCategories ==
    { EntityTypes.Algorithm, EntityTypes.Concept, <<"P","E","R","S","O","N">>,
      <<"O","R","G","A","N","I","Z","A","T","I","O","N">>,
      <<"S","O","F","T","W","A","R","E">>, <<"M","E","T","R","I","C">>,
      EntityTypes.Other }

\* C27: every NormalizedEntity of the returned mapping has an entity_type of
\* the closed set ALGORITHM, CONCEPT, PERSON, ORGANIZATION, SOFTWARE, METRIC,
\* OTHER, whatever type the LLM response carries for it.
C27_TypeInClosedSet ==
    \A i \in 1..Len(all_normalized) :
        all_normalized[i].entity_type \in PromptCategories

\* the entity_type is the 'type' value of an item of a parsed response as the
\* LLM wrote it, or OTHER for an item without one
C27_TypeAsWritten ==
    \A i \in 1..Len(all_normalized) :
        \E k \in 1..Len(norm_log) :
            /\ norm_log[k].kind = "parsed"
            /\ \E j \in 1..Len(norm_log[k].entities) :
                  LET raw == norm_log[k].entities[j]
                  IN /\ WellFormed(raw)
                     /\ Strip(raw.canonical_name) = all_normalized[i].canonical_name
                     /\ all_normalized[i].entity_type
                           = IF raw.has_type THEN raw.type ELSE EntityTypes.Other

-----------------------------------------------------------------------------
(* Claims about the executor and the formatter *)

\* the response for an empty result set: the 'no result found' answer, no raw
\* results, confidence 0.0, with the query type asked
EmptyResponseGiven ==
    (answer.done /\ results.rows = <<>>) =>
        /\ answer.kind = "empty"
        /\ answer.raw_results = <<>>
        /\ answer.confidence = "0.0"
        /\ answer.query_type = intent.query_type

\* C28: no exception leaves execute_sparql, also for a SPARQL string that
\* fails to execute, and for an empty result set format_response gives the
\* 'no result found' response with empty raw_results and confidence 0.0.
C28_QueryErrorsAreValues ==
    /\ results.executed => ~results.raised
    /\ EmptyResponseGiven

\* for each query type, an empty result set gives the zero-confidence
\* response, and so does a formatter that raises
C28_FormatterErrorsAreValues ==
    /\ EmptyResponseGiven
    /\ (answer.done /\ demo_call.oc.format = "formatter_raises" /\ results.rows # <<>>)
          => answer.kind = "format_error" /\ answer.confidence = "0.0"

\* the empty result set of a FIND_SIMILAR query has been formatted
C28_EmptyFormatted ==
    /\ answer.done
    /\ results.rows = <<>>
    /\ intent.query_type = QueryType.FIND_SIMILAR

-----------------------------------------------------------------------------
(* Claims about the authorship query *)

\* every Y of a direct triple (X, p, Y) of the graph, for X the entity asked
\* and p of the set, is the creator of a row
CreatorsReturned(predicates) ==
    \A t \in graph :
        (/\ t[1] = ENTITY(query.token)
         /\ t[2] \in {_create_relation_uri(p) : p \in predicates})
        => \E r \in query.rows : r.creator = t[3]

\* C29: whenever the graph holds a direct triple (X, p, Y) with p one of
\* created_by, proposed_by, developed_by, the WHO_CREATED query for X's token
\* returns Y among its creators.
C29_AuthorshipComplete ==
    query.asked => CreatorsReturned(AuthorshipPredicates)

\* the creators of proposed_by and developed_by triples are returned
C29_ProposedAndDevelopedReturned ==
    query.asked =>
        CreatorsReturned(AuthorshipPredicates
                            \ {<<"c","r","e","a","t","e","d","_","b","y">>})

\* a creator has been returned for a developed_by triple
C29_CreatorReturned ==
    /\ query.asked
    /\ query.rows # {}
    /\ \E r \in query.rows : r.has_label /\ r.creatorLabel = Vapnik

-----------------------------------------------------------------------------
(* Claims about the counters of the relation extractor *)

\* C30: after any sequence of extract_relations_from_chunk calls, whatever
\* the LLM did in each, chunks_processed is the number of calls made with at
\* least 2 entities, llm_calls and failed_extractions are at most
\* chunks_processed, each such call has incremented llm_calls or
\* failed_extractions, and relations_extracted is the total number of
\* Relation objects the calls returned.
C30_CountersConsistent ==
    /\ rel_stats.chunks_processed = Len(rel_log)
    /\ rel_stats.llm_calls <= rel_stats.chunks_processed
    /\ rel_stats.failed_extractions <= rel_stats.chunks_processed
    /\ rel_stats.llm_calls + rel_stats.failed_extractions >= rel_stats.chunks_processed
    /\ rel_stats.relations_extracted = Len(all_relations)
    /\ \A k \in 1..Len(rel_log) :
          /\ rel_log[k].failed_after - rel_log[k].failed_before \in {0, 1}
          /\ rel_log[k].kind = "chat_raises" =>
                rel_log[k].failed_after = rel_log[k].failed_before + 1

\* two calls were made, in one the chat raised, the other returned a relation
C30_Witness ==
    /\ Len(rel_log) = 2
    /\ \E k \in 1..2 : rel_log[k].kind = "chat_raises"
    /\ \E k \in 1..2 : rel_log[k].returned # <<>>
    /\ rel_stats.llm_calls = 1
    /\ rel_stats.failed_extractions = 1
    /\ rel_stats.relations_extracted = 1

====
